---- MODULE Spec2Model ----
(***************************************************************************)
(* Cellar: secure archive extraction (utils/archive.rs), runtime install    *)
(* (runners/proton.rs, runners/dxvk.rs, cli/commands.rs) and the launch     *)
(* command compiler (launch/command.rs).                                    *)
(*                                                                          *)
(* Text is modelled character by character: a string is a sequence of       *)
(* one-character strings, a path on disk is a sequence of names, and a      *)
(* name is a string in that sense.                                          *)
(***************************************************************************)
EXTENDS Integers, Sequences, FiniteSets, TLC

VARIABLES
    \* ---- secure archive extractor (utils/archive.rs) ----
    format,          \* "tar" | "zip": which extractor runs
    fs,              \* the file system: absolute path -> node
    fs_pre,          \* the file system before the entry handled last
    fs0,             \* the file system when the extraction was called
    max_files,       \* parameter max_files
    max_total_size,  \* parameter max_total_size
    archive_len,     \* number of entries the archive holds
    file_count,      \* entries taken from the archive so far
    total_size,      \* running total of declared sizes (u64, saturating)
    true_sum,        \* the mathematical sum of the sizes added to total_size
    written,         \* entries materialized so far (file written / directory made)
    status,          \* "init" | "running" | "Ok" | an error
    last,            \* the entry handled last and what validation returned
    \* ---- runtime install (runners/*.rs, cli/commands.rs) ----
    inst_family,     \* "proton" | "dxvk"
    inst_pc,         \* position inside install_runner
    inst_entries,    \* entries left in the downloaded archive
    inst_log,        \* what the unpack step put on disk, and through which routine
    cache_fresh,     \* the runner cache was rewritten after the install
    \* ---- launch command compiler (launch/command.rs) ----
    config,          \* the GameConfig fields the compiler reads
    proton_path,     \* CommandBuilder.proton_path: TRUE when set
    build_pc,        \* "ready" | "built"
    result,          \* what CommandBuilder::build returned
    \* ---- game launcher (launch/executor.rs) ----
    launch_pc,       \* position inside launch_game
    host,            \* what launch_game finds on disk
    launch_trace,    \* the steps launch_game has completed, in order
    child,           \* the child process: how it was spawned, how it ended
    launch_result,   \* what launch_game returned
    \* ---- release download (runners/common.rs, runners/proton.rs) ----
    fetch_family,    \* "proton" | "dxvk"
    fetch_pc,        \* position inside the download function
    remote,          \* what the release server answers
    fetch_log,       \* the requests sent and the checks passed, in order
    temp_file,       \* name and length of the temporary file written
    fetch_result,    \* what the download function returned
    \* ---- names and versions (runners/proton.rs, runners/dxvk.rs) ----
    probe_fn,        \* the function applied to the name, "none" before
    probe_in,        \* a directory, archive or version name
    probe_out,       \* the string the function returned
    probe_key,       \* the number the function returned
    \* ---- runner store and cache (cli/commands.rs) ----
    disk,            \* directories of the store and of the Steam library
    cache,           \* the file runners.toml
    now,             \* the clock, in half hours
    request,         \* the command that is run
    run_pc,          \* position inside the command
    answer,          \* what the command returned
    before,          \* the directories and the cache when the command began
    refreshers,      \* the refreshes running at once: where each one is
    seen             \* what a reader of the cache file found last

archVars == <<format, fs, fs_pre, fs0, max_files, max_total_size, archive_len,
              file_count, total_size, true_sum, written, status, last>>
instVars == <<inst_family, inst_pc, inst_entries, inst_log, cache_fresh>>
buildVars == <<config, proton_path, build_pc, result>>
launchVars == <<launch_pc, host, launch_trace, child, launch_result>>
fetchVars == <<fetch_family, fetch_pc, remote, fetch_log, temp_file,
               fetch_result>>
nameVars == <<probe_fn, probe_in, probe_out, probe_key>>
runVars ==
    <<disk, cache, now, request, run_pc, answer, before, refreshers, seen>>
storeVars == <<nameVars, runVars>>
vars == <<archVars, instVars, buildVars, launchVars, fetchVars, storeVars>>

---------------------------------------------------------------------------
(* Bounds of the model *)

\* entries per archive
MaxEntries == 2
\* width in bits standing for the 64 bits of u64 (total_size)
U64Bits == 4
\* words joined into one launch_options string
MaxWords == 3

\* lines the child writes to standard error
MaxLines == 2

U64_MAX == 2^U64Bits - 1

---------------------------------------------------------------------------
(* Strings *)

NUL == "NUL"
SLASH == "/"
BACKSLASH == "\\"
DOT == "."
QUOTE == "\""
SPACE == " "
\* the grave accent, U+0060
BACKTICK == "BACKTICK"

IsPrefixOf(p, s) == Len(p) <= Len(s) /\ SubSeq(s, 1, Len(p)) = p

ContainsSub(s, pat) ==
    \E i \in 1..(Len(s) - Len(pat) + 1) : SubSeq(s, i, i + Len(pat) - 1) = pat

ContainsChar(s, ch) == \E i \in 1..Len(s) : s[i] = ch

\* s cut at every occurrence of sep; empty pieces are kept
RECURSIVE SplitOn(_, _, _)
SplitOn(s, sep, cur) ==
    IF s = <<>> THEN <<cur>>
    ELSE IF Head(s) = sep THEN <<cur>> \o SplitOn(Tail(s), sep, <<>>)
    ELSE SplitOn(Tail(s), sep, Append(cur, Head(s)))

RECURSIVE JoinWith(_, _)
JoinWith(parts, sep) ==
    IF parts = <<>> THEN <<>>
    ELSE IF Len(parts) = 1 THEN parts[1]
    ELSE parts[1] \o <<sep>> \o JoinWith(Tail(parts), sep)

Front(s) == SubSeq(s, 1, Len(s) - 1)

---------------------------------------------------------------------------
(* The file system the extractor works on *)

DirNode == [kind |-> "dir", target |-> <<>>]
FileNode == [kind |-> "file", target |-> <<>>]
SymlinkNode(t) == [kind |-> "symlink", target |-> t]

\* names of the two directories under the root: the destination and a
\* directory that is not part of it
DestName == <<"D">>
OutsideName == <<"O">>
Destination == <<DestName>>
Outside == <<OutsideName>>

NoPath == [ok |-> FALSE, path |-> <<>>]

\* symbolic links followed while resolving one path (ELOOP beyond it)
MaxSymlinks == 2

\* std::fs::canonicalize (realpath): every component must exist, links are
\* followed, a non-final component must be a directory
RECURSIVE Resolve(_, _, _, _)
Resolve(f, cur, rest, fuel) ==
    IF rest = <<>> THEN [ok |-> TRUE, path |-> cur]
    ELSE LET q == Append(cur, Head(rest)) IN
         IF q \notin DOMAIN f THEN NoPath
         ELSE IF f[q].kind = "dir" THEN Resolve(f, q, Tail(rest), fuel)
         ELSE IF f[q].kind = "file"
              THEN IF Tail(rest) = <<>> THEN [ok |-> TRUE, path |-> q] ELSE NoPath
         ELSE IF fuel = 0 THEN NoPath
              ELSE Resolve(f, <<>>, f[q].target \o Tail(rest), fuel - 1)

canonicalize(f, p) == Resolve(f, <<>>, p, MaxSymlinks)

\* Path::exists: follows links
exists(f, p) == canonicalize(f, p).ok

is_dir(f, p) ==
    LET c == canonicalize(f, p)
    IN c.ok /\ (c.path = <<>> \/ f[c.path].kind = "dir")

\* Path::starts_with: whole components
starts_with(p, base) == IsPrefixOf(base, p)

\* std::fs::create_dir_all: makes every missing directory on the way, going
\* through links to directories; fails on a component that is no directory
RECURSIVE MkdirWalk(_, _, _)
MkdirWalk(f, cur, rest) ==
    IF rest = <<>> THEN [ok |-> TRUE, fs |-> f]
    ELSE LET q == Append(cur, Head(rest)) IN
         IF q \notin DOMAIN f
         THEN MkdirWalk([x \in DOMAIN f \cup {q} |-> IF x = q THEN DirNode ELSE f[x]],
                        q, Tail(rest))
         ELSE IF f[q].kind = "dir" THEN MkdirWalk(f, q, Tail(rest))
         ELSE IF f[q].kind = "symlink" /\ is_dir(f, q)
              THEN MkdirWalk(f, canonicalize(f, q).path, Tail(rest))
         ELSE [ok |-> FALSE, fs |-> f]

create_dir_all(f, p) == MkdirWalk(f, <<>>, p)

\* tar::Entry::unpack of a regular file: create_new, and on AlreadyExists
\* remove_file followed by create_new again; the parent must resolve to a
\* directory and the target must not be a directory
unpack_file(f, p) ==
    LET par == canonicalize(f, Front(p))
        q == Append(par.path, p[Len(p)])
    IN IF p = <<>> \/ ~is_dir(f, Front(p)) THEN [ok |-> FALSE, fs |-> f]
       ELSE IF q \in DOMAIN f /\ f[q].kind = "dir" THEN [ok |-> FALSE, fs |-> f]
       ELSE [ok |-> TRUE,
             fs |-> [x \in DOMAIN f \cup {q} |-> IF x = q THEN FileNode ELSE f[x]]]

\* std::fs::File::create: follows a link in the last component, truncates
\* what is there, fails on a directory
file_create(f, p) ==
    LET c == canonicalize(f, p)
        par == canonicalize(f, Front(p))
        q == IF c.ok THEN c.path ELSE Append(par.path, p[Len(p)])
    IN IF p = <<>> THEN [ok |-> FALSE, fs |-> f]
       ELSE IF c.ok /\ (c.path = <<>> \/ f[c.path].kind = "dir") THEN [ok |-> FALSE, fs |-> f]
       ELSE IF ~c.ok /\ (~is_dir(f, Front(p)) \/ Append(par.path, p[Len(p)]) \in DOMAIN f)
            THEN [ok |-> FALSE, fs |-> f]
       ELSE [ok |-> TRUE,
             fs |-> [x \in DOMAIN f \cup {q} |-> IF x = q THEN FileNode ELSE f[x]]]

---------------------------------------------------------------------------
(* validate_archive_path *)

Component(t, n) == [type |-> t, name |-> n]

\* Path::components on Unix: a leading "/" is RootDir, empty pieces and "."
\* are dropped except a "." that starts a relative path (CurDir), ".." is
\* ParentDir, anything else is Normal
RECURSIVE ComponentsOf(_, _, _)
ComponentsOf(pieces, first, rooted) ==
    IF pieces = <<>> THEN <<>>
    ELSE LET x == Head(pieces)
             rest == ComponentsOf(Tail(pieces), FALSE, rooted)
         IN IF x = <<>> THEN ComponentsOf(Tail(pieces), first, rooted)
            ELSE IF x = <<DOT>>
                 THEN IF first /\ ~rooted THEN <<Component("CurDir", x)>> \o rest
                      ELSE rest
            ELSE IF x = <<DOT, DOT>> THEN <<Component("ParentDir", x)>> \o rest
            ELSE <<Component("Normal", x)>> \o rest

components(path) ==
    LET rooted == path # <<>> /\ path[1] = SLASH
        pieces == SplitOn(path, SLASH, <<>>)
        \* "." starts the path only when it is the first piece
        body == IF pieces[1] = <<DOT>>
                THEN ComponentsOf(pieces, TRUE, rooted)
                ELSE ComponentsOf(pieces, FALSE, rooted)
    IN IF rooted THEN <<Component("RootDir", <<SLASH>>)>> \o body ELSE body

\* the loop with ".." dropped like "." instead of refused
RECURSIVE NormalizeLoop_SkipParentDir(_, _)
NormalizeLoop_SkipParentDir(comps, normalized) ==
    IF comps = <<>> THEN [err |-> "none", names |-> normalized]
    ELSE LET c == Head(comps) IN
         IF c.type = "Normal"
         THEN NormalizeLoop_SkipParentDir(Tail(comps), Append(normalized, c.name))
         ELSE IF c.type \in {"CurDir", "ParentDir"}
              THEN NormalizeLoop_SkipParentDir(Tail(comps), normalized)
         ELSE [err |-> "AbsolutePath", names |-> normalized]

\* the loop of validate_archive_path over the components: the names pushed
\* to `normalized`, or the error of the first component that is refused
RECURSIVE NormalizeLoop(_, _)
NormalizeLoop(comps, normalized) ==
    IF comps = <<>> THEN [err |-> "none", names |-> normalized]
    ELSE LET c == Head(comps) IN
         IF c.type = "Normal" THEN NormalizeLoop(Tail(comps), Append(normalized, c.name))
         ELSE IF c.type = "CurDir" THEN NormalizeLoop(Tail(comps), normalized)
         ELSE IF c.type = "ParentDir" THEN [err |-> "PathTraversal", names |-> normalized]
         ELSE [err |-> "AbsolutePath", names |-> normalized]

\* the test on the text of the normalized path
SuspiciousPattern(path_str) ==
    \/ ContainsSub(path_str, <<DOT, DOT>>)
    \/ IsPrefixOf(<<SLASH>>, path_str)
    \/ IsPrefixOf(<<BACKSLASH>>, path_str)
    \/ ContainsChar(path_str, NUL)
    \/ ContainsChar(path_str, BACKSLASH)
    \/ ContainsSub(path_str, <<DOT, BACKSLASH>>)
    \/ ContainsSub(path_str, <<DOT, SLASH>>)
    \/ ContainsSub(path_str, <<":", BACKSLASH>>)

\* the check that the canonical final path lies under the canonical destination
WithinDestination(f, final_path, destination) ==
    starts_with(canonicalize(f, final_path).path, canonicalize(f, destination).path)

Rejected(e, f) == [ok |-> FALSE, err |-> e, path |-> <<>>, fs |-> f]

\* the part of validate_archive_path after the text checks: join,
\* canonicalize, create the parents when that fails, canonicalize again
validate_final_path(final_path, destination, f) ==
    IF canonicalize(f, final_path).ok
    THEN IF ~canonicalize(f, destination).ok THEN Rejected("CanonicalizeDestination", f)
         ELSE IF ~WithinDestination(f, final_path, destination)
              THEN Rejected("EscapesDestination", f)
         ELSE [ok |-> TRUE, err |-> "none", path |-> final_path, fs |-> f]
    ELSE LET parent == Front(final_path)
             made == IF exists(f, parent) THEN [ok |-> TRUE, fs |-> f]
                     ELSE create_dir_all(f, parent)
         IN IF ~made.ok THEN Rejected("CreateParent", made.fs)
            ELSE IF ~canonicalize(made.fs, final_path).ok
                 THEN Rejected("CanonicalizeFailed", made.fs)
            ELSE IF ~canonicalize(made.fs, destination).ok
                 THEN Rejected("CanonicalizeDestination", made.fs)
            ELSE IF ~WithinDestination(made.fs, final_path, destination)
                 THEN Rejected("EscapesDestination", made.fs)
            ELSE [ok |-> TRUE, err |-> "none", path |-> final_path, fs |-> made.fs]

validate_archive_path(entry_path, destination, f) ==
    LET n == NormalizeLoop(components(entry_path), <<>>)
    IN IF n.err # "none" THEN Rejected(n.err, f)
       ELSE IF SuspiciousPattern(JoinWith(n.names, SLASH)) THEN Rejected("SuspiciousPattern", f)
       ELSE validate_final_path(destination \o n.names, destination, f)

---------------------------------------------------------------------------
(* Archives and the states the extractors start from *)

\* entry paths as the archive stores them
P_a == <<"a">>
P_sub_f == <<"s", SLASH, "f">>
P_d == <<"d">>
P_d_f == <<"d", SLASH, "f">>
P_cur_a == <<DOT, SLASH, "a">>
P_cur == <<DOT>>
P_up_x == <<DOT, DOT, SLASH, "x">>
P_mid_up == <<"s", SLASH, DOT, DOT, SLASH, "f">>
P_abs == <<SLASH, "e">>
P_nul == <<"a", NUL>>
P_dots == <<"a", DOT, DOT, "b">>
P_backslash == <<"a", BACKSLASH, "b">>
P_link_n_f == <<"l", SLASH, "n", SLASH, "f">>
P_link_x == <<"l", SLASH, "x">>

EntryPaths == {P_a, P_sub_f, P_d, P_d_f, P_cur_a, P_cur, P_up_x, P_mid_up, P_abs,
               P_nul, P_dots, P_backslash, P_link_n_f, P_link_x}

EntryKinds == {"file", "dir", "symlink"}

EntrySizes == {0, 1, U64_MAX}

Entries == [path : EntryPaths, kind : EntryKinds, size : EntrySizes]

FsOf(pairs) == [p \in {x[1] : x \in pairs} |-> (CHOOSE x \in pairs : x[1] = p)[2]]

OutsideTree == {<<Outside, DirNode>>, <<Append(Outside, <<"x">>), FileNode>>}

\* the destination does not exist yet
FS_no_destination == FsOf(OutsideTree)
\* an empty destination
FS_empty == FsOf(OutsideTree \cup {<<Destination, DirNode>>})
\* a destination that already holds a/, d/ and d/f (an earlier extraction)
FS_populated ==
    FsOf(OutsideTree \cup {<<Destination, DirNode>>,
                           <<Append(Destination, <<"a">>), FileNode>>,
                           <<Append(Destination, <<"d">>), DirNode>>,
                           <<Destination \o << <<"d">>, <<"f">> >>, FileNode>>})
\* a destination that holds a file and a link l to a directory outside it
FS_symlink ==
    FsOf(OutsideTree \cup {<<Destination, DirNode>>,
                           <<Append(Destination, <<"a">>), FileNode>>,
                           <<Append(Destination, <<"l">>), SymlinkNode(Outside)>>})

InitialFileSystems == {FS_no_destination, FS_empty, FS_populated, FS_symlink}

NoEntry == [path |-> <<>>, kind |-> "none", size |-> 0]
NoLast == [entry |-> NoEntry, validated |-> FALSE, err |-> "none", path |-> <<>>,
           wrote |-> FALSE]

---------------------------------------------------------------------------
(* extract_tar_gz_secure and extract_zip_secure *)

\* the count compared one entry too late
FileCountExceeded_OffByOne(count, limit) == count > limit + 1

\* file_count > max_files, after file_count += 1
FileCountExceeded(count, limit) == count > limit

\* archive.len() > max_files, before the first entry is read
ZipCountExceeded(len, limit) == len > limit

\* u64::wrapping_add
SaturatingAdd_Wrapping(a, b) == (a + b) % (U64_MAX + 1)

\* u64::saturating_add
SaturatingAdd(a, b) == IF a + b > U64_MAX THEN U64_MAX ELSE a + b

SizeExceeded(total, limit) == total > limit

Outcome(st, f, wrote, v) ==
    [status |-> st, fs |-> f, wrote |-> wrote,
     last_validated |-> TRUE, err |-> v.err, path |-> v.path]

\* the body of the tar loop from the path validation on
TarMaterialize(e, f) ==
    LET v == validate_archive_path(e.path, Destination, f) IN
    IF ~v.ok THEN Outcome(v.err, v.fs, FALSE, v)
    ELSE LET mk == create_dir_all(v.fs, Front(v.path)) IN
         IF ~mk.ok THEN Outcome("IoError", mk.fs, FALSE, v)
         ELSE IF e.kind = "file"
              THEN LET u == unpack_file(mk.fs, v.path)
                   IN Outcome(IF u.ok THEN "running" ELSE "IoError", u.fs, u.ok, v)
         ELSE IF e.kind = "dir"
              THEN LET d == create_dir_all(mk.fs, v.path)
                   IN Outcome(IF d.ok THEN "running" ELSE "IoError", d.fs, d.ok, v)
         ELSE Outcome("running", mk.fs, FALSE, v)

\* the body of the zip loop from the path validation on; ZipFile::is_dir
\* holds for directory entries only, every other entry is written as a file
ZipMaterialize(e, f) ==
    LET v == validate_archive_path(e.path, Destination, f) IN
    IF ~v.ok THEN Outcome(v.err, v.fs, FALSE, v)
    ELSE IF e.kind = "dir"
         THEN LET d == create_dir_all(v.fs, v.path)
              IN Outcome(IF d.ok THEN "running" ELSE "IoError", d.fs, d.ok, v)
    ELSE LET mk == create_dir_all(v.fs, Front(v.path)) IN
         IF ~mk.ok THEN Outcome("IoError", mk.fs, FALSE, v)
         ELSE LET c == file_create(mk.fs, v.path)
              IN Outcome(IF c.ok THEN "running" ELSE "IoError", c.fs, c.ok, v)

Aborted(st, e) ==
    /\ status' = st
    /\ last' = [entry |-> e, validated |-> FALSE, err |-> "none", path |-> <<>>,
                wrote |-> FALSE]
    /\ UNCHANGED <<fs, written>>

Materialized(o, e) ==
    /\ status' = o.status
    /\ fs' = o.fs
    /\ written' = IF o.wrote THEN written + 1 ELSE written
    /\ last' = [entry |-> e, validated |-> TRUE, err |-> o.err, path |-> o.path,
                wrote |-> o.wrote]

\* extract_tar_gz_secure up to the loop
TarBegin ==
    /\ format = "tar" /\ status = "init"
    /\ LET mk == create_dir_all(fs, Destination)
       IN /\ fs' = mk.fs
          /\ status' = IF mk.ok THEN "running" ELSE "IoError"
    /\ fs_pre' = fs
    /\ UNCHANGED <<format, fs0, max_files, max_total_size, archive_len, file_count,
                   total_size, true_sum, written, last>>
    /\ UNCHANGED <<instVars, buildVars, launchVars, fetchVars, storeVars>>

\* one turn of the tar loop
TarEntry ==
    /\ format = "tar" /\ status = "running" /\ file_count < archive_len
    /\ \E e \in Entries :
          /\ file_count' = file_count + 1
          /\ fs_pre' = fs
          /\ IF FileCountExceeded(file_count + 1, max_files)
             THEN Aborted("TooManyFiles", e) /\ UNCHANGED <<total_size, true_sum>>
             ELSE /\ total_size' = SaturatingAdd(total_size, e.size)
                  /\ true_sum' = true_sum + e.size
                  /\ IF SizeExceeded(total_size', max_total_size)
                     THEN Aborted("ArchiveTooLarge", e)
                     ELSE Materialized(TarMaterialize(e, fs), e)
    /\ UNCHANGED <<format, fs0, max_files, max_total_size, archive_len>>
    /\ UNCHANGED <<instVars, buildVars, launchVars, fetchVars, storeVars>>

\* extract_zip_secure up to the loop
ZipBegin ==
    /\ format = "zip" /\ status = "init"
    /\ LET mk == create_dir_all(fs, Destination)
       IN /\ fs' = mk.fs
          /\ status' = IF ~mk.ok THEN "IoError"
                       ELSE IF ZipCountExceeded(archive_len, max_files) THEN "TooManyFiles"
                       ELSE "running"
    /\ fs_pre' = fs
    /\ UNCHANGED <<format, fs0, max_files, max_total_size, archive_len, file_count,
                   total_size, true_sum, written, last>>
    /\ UNCHANGED <<instVars, buildVars, launchVars, fetchVars, storeVars>>

\* one turn of the zip loop
ZipEntry ==
    /\ format = "zip" /\ status = "running" /\ file_count < archive_len
    /\ \E e \in Entries :
          /\ file_count' = file_count + 1
          /\ fs_pre' = fs
          /\ total_size' = SaturatingAdd(total_size, e.size)
          /\ true_sum' = true_sum + e.size
          /\ IF SizeExceeded(total_size', max_total_size)
             THEN Aborted("ArchiveTooLarge", e)
             ELSE Materialized(ZipMaterialize(e, fs), e)
    /\ UNCHANGED <<format, fs0, max_files, max_total_size, archive_len>>
    /\ UNCHANGED <<instVars, buildVars, launchVars, fetchVars, storeVars>>

\* the archive is exhausted: Ok(())
ExtractEnd ==
    /\ status = "running" /\ file_count = archive_len
    /\ status' = "Ok"
    /\ UNCHANGED <<format, fs, fs_pre, fs0, max_files, max_total_size, archive_len,
                   file_count, total_size, true_sum, written, last>>
    /\ UNCHANGED <<instVars, buildVars, launchVars, fetchVars, storeVars>>

---------------------------------------------------------------------------
(* States of the parts that are not running *)

ArchIdle ==
    /\ format = "none" /\ fs = FS_empty /\ fs_pre = FS_empty /\ fs0 = FS_empty
    /\ max_files = 0 /\ max_total_size = 0 /\ archive_len = 0
    /\ file_count = 0 /\ total_size = 0 /\ true_sum = 0 /\ written = 0
    /\ status = "idle" /\ last = NoLast

InstIdle ==
    /\ inst_family = "none" /\ inst_pc = "idle" /\ inst_entries = <<>>
    /\ inst_log = <<>> /\ cache_fresh = FALSE

\* GamescopeConfig::default
DefaultGamescope ==
    [enabled |-> FALSE, width |-> 1920, height |-> 1080,
     output_width |-> 1920, output_height |-> 1080, refresh_rate |-> 60,
     upscaling |-> "fsr", fullscreen |-> TRUE, force_grab_cursor |-> FALSE,
     expose_wayland |-> FALSE, hdr |-> FALSE, adaptive_sync |-> FALSE,
     immediate_flips |-> FALSE]

\* WineConfig::default
DefaultWine ==
    [esync |-> TRUE, fsync |-> TRUE, dxvk |-> TRUE, dxvk_async |-> TRUE,
     large_address_aware |-> FALSE]

\* DxvkConfig::default
DefaultDxvk == [hud |-> <<>>]

\* a HashMap with no entry
NoEnvironment == [key \in {} |-> <<>>]

NoConfig ==
    [game |-> [executable |-> <<>>, wine_prefix |-> <<>>],
     launch |-> [launch_options |-> <<>>, game_args |-> <<>>,
                 gamemode |-> FALSE, mangohud |-> FALSE],
     wine_config |-> DefaultWine,
     dxvk |-> DefaultDxvk,
     gamescope |-> DefaultGamescope]
NoResult ==
    [ok |-> FALSE, err |-> "none", command |-> <<>>,
     environment |-> NoEnvironment]

NoHost ==
    [executable_exists |-> FALSE, prefix_exists |-> FALSE,
     system32_exists |-> FALSE, runner_installed |-> FALSE]
NoChild ==
    [spawned |-> FALSE, via |-> "none", program |-> <<>>, args |-> <<>>,
     exit_code |-> 0, stderr |-> <<>>]
NoLaunchResult == [state |-> "none", err |-> "none", lines |-> <<>>]

LaunchIdle ==
    /\ launch_pc = "idle" /\ host = NoHost /\ launch_trace = <<>>
    /\ child = NoChild /\ launch_result = NoLaunchResult

NoRemote ==
    [release_found |-> FALSE, assets |-> <<>>, download_ok |-> FALSE,
     content_length |-> <<>>, bytes |-> 0, max_download_size |-> 0]
NoFile == [name |-> <<>>, len |-> 0]
NoFetchResult == [state |-> "none", err |-> "none"]

FetchIdle ==
    /\ fetch_family = "none" /\ fetch_pc = "idle" /\ remote = NoRemote
    /\ fetch_log = <<>> /\ temp_file = NoFile
    /\ fetch_result = NoFetchResult

NameIdle ==
    /\ probe_fn = "none" /\ probe_in = <<>> /\ probe_out = <<>>
    /\ probe_key = 0

NoDisk == [steam |-> <<>>, proton |-> <<>>, dxvk |-> <<>>]
NoCache == [state |-> "missing", runners |-> <<>>, last_updated |-> 0]
NoRequest == [op |-> "none", family |-> "none", version |-> <<>>]
NoAnswer == [state |-> "none", err |-> "none", source |-> "none",
             runners |-> <<>>, value |-> <<>>]

RunIdle ==
    /\ disk = NoDisk /\ cache = NoCache /\ now = 0 /\ request = NoRequest
    /\ run_pc = "idle" /\ answer = NoAnswer
    /\ before = [disk |-> NoDisk, cache |-> NoCache]
    /\ refreshers = <<>> /\ seen = NoCache

StoreIdle == NameIdle /\ RunIdle

BuildIdle ==
    /\ config = NoConfig /\ proton_path = FALSE /\ build_pc = "idle"
    /\ result = NoResult

---------------------------------------------------------------------------
(* Specification of one call of a secure extractor *)

ArchInit ==
    /\ format \in {"tar", "zip"}
    /\ fs \in InitialFileSystems
    /\ fs_pre = fs /\ fs0 = fs
    /\ max_files \in 1..MaxEntries
    /\ max_total_size \in {1, U64_MAX - 1, U64_MAX}
    /\ archive_len \in 0..MaxEntries
    /\ file_count = 0 /\ total_size = 0 /\ true_sum = 0 /\ written = 0
    /\ status = "init" /\ last = NoLast
    /\ InstIdle /\ BuildIdle /\ LaunchIdle /\ FetchIdle /\ StoreIdle

ArchNext == TarBegin \/ TarEntry \/ ZipBegin \/ ZipEntry \/ ExtractEnd

SpecArchive == ArchInit /\ [][ArchNext]_vars

---------------------------------------------------------------------------
(* Properties of the secure extractors *)

Min(a, b) == IF a < b THEN a ELSE b

PathPieces(path) == SplitOn(path, SLASH, <<>>)

HasParentDirComponent(path) ==
    \E i \in 1..Len(PathPieces(path)) : PathPieces(path)[i] = <<DOT, DOT>>
IsAbsolutePath(path) == path # <<>> /\ path[1] = SLASH
HasNullByte(path) == ContainsChar(path, NUL)
UnsafeEntryPath(path) ==
    HasParentDirComponent(path) \/ IsAbsolutePath(path) \/ HasNullByte(path)

Letters == {"a", "b", "d", "e", "f", "l", "n", "s", "x"}
\* a relative path of plain names: subdir/file.txt
PlainRelativePath(path) ==
    /\ path # <<>>
    /\ \A i \in 1..Len(path) : path[i] \in Letters \cup {SLASH}
    /\ \A i \in 1..Len(PathPieces(path)) : PathPieces(path)[i] # <<>>

NoSymlinkIn(f) == \A p \in DOMAIN f : f[p].kind # "symlink"

\* what exists now, did not exist in f_start, and is not under the destination
CreatedOutside(f, f_start) ==
    {p \in DOMAIN f \ DOMAIN f_start : ~IsPrefixOf(Destination, p)}

PathRejections == {"PathTraversal", "AbsolutePath", "SuspiciousPattern"}

ExtractionStopped == ~ENABLED (TarEntry \/ ZipEntry \/ ExtractEnd)

\* C1: an entry whose path has a ".." component, is absolute or holds a null
\* byte is rejected by validate_archive_path; the rejection ends the
\* extraction, nothing is created for the entry, and in an extraction that
\* ended this way nothing was created outside the destination at any point.
C1_UnsafePathRejected ==
    (last.validated /\ UnsafeEntryPath(last.entry.path)) =>
        /\ status \in PathRejections
        /\ ExtractionStopped
        /\ fs = fs_pre
        /\ CreatedOutside(fs, fs0) = {}

C1_Witness ==
    /\ last.validated /\ HasParentDirComponent(last.entry.path)
    /\ status = "PathTraversal" /\ written >= 1

\* C2: a relative path of normal components whose target does not exist yet
\* under an existing destination is accepted, and the destination joined
\* with the path is returned.
C2_NewPathAccepted ==
    (/\ last.validated
     /\ PlainRelativePath(last.entry.path)
     /\ NoSymlinkIn(fs_pre)
     /\ is_dir(fs_pre, Destination)
     /\ ~exists(fs_pre, Destination \o PathPieces(last.entry.path))) =>
        /\ last.err = "none"
        /\ last.path = Destination \o PathPieces(last.entry.path)

\* C3: never more than max_files entries are materialized; the count is
\* checked before the entry is validated or written, and the entry that
\* exceeds it ends the extraction with TooManyFiles and is not written.
C3_FileCountBound ==
    /\ written <= max_files
    /\ last.validated => file_count <= max_files
    /\ status = "TooManyFiles" =>
          /\ ExtractionStopped
          /\ IF format = "tar"
             THEN fs = fs_pre /\ ~last.validated /\ file_count = max_files + 1
             ELSE written = 0 /\ file_count = 0 /\ archive_len > max_files

C3_Witness ==
    status = "TooManyFiles" /\ format = "tar" /\ written = max_files

\* C4: total_size is the sum of the declared sizes cut off at the largest
\* u64, never a wrapped-around value; an entry is only validated or written
\* while the total is within max_total_size, and the entry that takes the
\* total above it ends the extraction with ArchiveTooLarge.
C4_SaturatingTotal ==
    /\ total_size = Min(true_sum, U64_MAX)
    /\ status # "ArchiveTooLarge" => total_size <= max_total_size
    /\ (max_total_size < U64_MAX /\ true_sum > max_total_size) =>
          status = "ArchiveTooLarge"
    /\ status = "ArchiveTooLarge" =>
          /\ total_size > max_total_size
          /\ ExtractionStopped /\ fs = fs_pre /\ ~last.validated

C4_Witness ==
    status = "ArchiveTooLarge" /\ true_sum > U64_MAX /\ file_count = 2

\* C5: a symlink (or other special) entry with a safe path is skipped: no
\* error, nothing created or written for it, and the extraction goes on.
C5_SpecialEntrySkipped ==
    (/\ last.validated
     /\ last.entry.kind = "symlink"
     /\ PlainRelativePath(last.entry.path)
     /\ NoSymlinkIn(fs_pre)) =>
        /\ status \in {"running", "Ok"}
        /\ fs = fs_pre
        /\ ~last.wrote

---------------------------------------------------------------------------
(* install_runner: download, unpack, refresh the cache *)

InstEntries == [kind : EntryKinds, size : {0, U64_MAX}]

RECURSIVE SeqsUpTo(_, _)
\* the sequences over S of length at most n
SeqsUpTo(S, n) ==
    IF n = 0 THEN {<<>>}
    ELSE LET shorter == SeqsUpTo(S, n - 1)
         IN shorter \cup {Append(q, x) : q \in shorter, x \in S}

\* download_runner: the archive arrives in the temporary directory, or the
\* download fails and install_runner returns the error
InstDownload ==
    /\ inst_pc = "start"
    /\ inst_pc' \in {"downloaded", "failed"}
    /\ UNCHANGED <<inst_family, inst_entries, inst_log, cache_fresh>>
    /\ UNCHANGED <<archVars, buildVars, launchVars, fetchVars, storeVars>>

\* extract_proton / extract_dxvk before the unpack: the version directory
\* and the temporary directory are made and the archive is opened
InstPrepare ==
    /\ inst_pc = "downloaded"
    /\ inst_pc' = "unpacking"
    /\ UNCHANGED <<inst_family, inst_entries, inst_log, cache_fresh>>
    /\ UNCHANGED <<archVars, buildVars, launchVars, fetchVars, storeVars>>

\* archive.unpack(&temp_extract): tar::Archive::unpack puts every entry on
\* disk, links included, with no call of validate_archive_path and no
\* count or size limit
InstUnpackEntry ==
    /\ inst_pc = "unpacking" /\ inst_entries # <<>>
    /\ inst_log' = Append(inst_log, [kind |-> Head(inst_entries).kind,
                                     size |-> Head(inst_entries).size,
                                     via |-> "tar::Archive::unpack"])
    /\ inst_entries' = Tail(inst_entries)
    /\ UNCHANGED <<inst_family, inst_pc, cache_fresh>>
    /\ UNCHANGED <<archVars, buildVars, launchVars, fetchVars, storeVars>>

\* the contents are moved to the version directory, the temporary
\* directory and the archive are removed
InstFinish ==
    /\ inst_pc = "unpacking" /\ inst_entries = <<>>
    /\ inst_pc' = "installed"
    /\ UNCHANGED <<inst_family, inst_entries, inst_log, cache_fresh>>
    /\ UNCHANGED <<archVars, buildVars, launchVars, fetchVars, storeVars>>

\* refresh_runners() at the end of install_runner
InstRefresh ==
    /\ inst_pc = "installed"
    /\ inst_pc' = "done"
    /\ cache_fresh' = TRUE
    /\ UNCHANGED <<inst_family, inst_entries, inst_log>>
    /\ UNCHANGED <<archVars, buildVars, launchVars, fetchVars, storeVars>>

InstInit ==
    /\ inst_family \in {"proton", "dxvk"}
    /\ inst_pc = "start"
    /\ inst_entries \in SeqsUpTo(InstEntries, MaxEntries)
    /\ inst_log = <<>>
    /\ cache_fresh = FALSE
    /\ ArchIdle /\ BuildIdle /\ LaunchIdle /\ FetchIdle /\ StoreIdle

InstNext == InstDownload \/ InstPrepare \/ InstUnpackEntry \/ InstFinish \/ InstRefresh

SpecInstall == InstInit /\ [][InstNext]_vars

\* C6: an install unpacks the archive only through the secure extractor, so
\* every entry put on disk was validated and counted by it, and a completed
\* install has refreshed the cache.
C6_InstallThroughSecureExtractor ==
    /\ \A i \in 1..Len(inst_log) : inst_log[i].via = "extract_tar_gz_secure"
    /\ inst_pc = "done" => cache_fresh

---------------------------------------------------------------------------
(* Launch command compiler: words of the command line *)

PLACEHOLDER == <<"%", "c", "o", "m", "m", "a", "n", "d", "%">>
UMU_RUN == <<"u", "m", "u", "-", "r", "u", "n">>
MANGOHUD == <<"m", "a", "n", "g", "o", "h", "u", "d">>
GAMESCOPE == <<"g", "a", "m", "e", "s", "c", "o", "p", "e">>
GAMEMODERUN == <<"g", "a", "m", "e", "m", "o", "d", "e", "r", "u", "n">>
SEPARATOR == <<"-", "-">>
MANGOAPP == <<"-", "-", "m", "a", "n", "g", "o", "a", "p", "p">>

Digit == <<"0", "1", "2", "3", "4", "5", "6", "7", "8", "9">>
DigitChars == {Digit[i] : i \in 1..10}
DigitValue(ch) == (CHOOSE i \in 1..10 : Digit[i] = ch) - 1

\* u32::to_string
RECURSIVE to_string(_)
to_string(n) ==
    IF n < 10 THEN <<Digit[n + 1]>>
    ELSE Append(to_string(n \div 10), Digit[(n % 10) + 1])

dangerous_chars_NoDollar ==
    {"|", "&", ";", BACKTICK, "(", ")", "{", "}", "[", "]", "*", "?", "~",
     "\n", "\r", "\t", "'", QUOTE}

\* the characters sanitize_token refuses
dangerous_chars ==
    {"|", "&", ";", BACKTICK, "$", "(", ")", "{", "}", "[", "]", "*", "?",
     "~", "\n", "\r", "\t", "'", QUOTE}

\* the substrings sanitize_token refuses
dangerous_patterns ==
    {<<DOT, DOT, SLASH>>, <<DOT, SLASH>>, <<SLASH, SLASH>>,
     <<BACKSLASH, BACKSLASH>>, <<"\n">>, <<"\r">>}

dangerous_prefixes == {<<"-">>, <<"-", "-">>}

\* the allowlist of is_safe_option
safe_options ==
    {<<"-", "-", "f", "u", "l", "l", "s", "c", "r", "e", "e", "n">>,
    <<"-", "-", "w", "i", "n", "d", "o", "w", "e", "d">>,
    <<"-", "-", "w", "i", "d", "t", "h">>,
    <<"-", "-", "h", "e", "i", "g", "h", "t">>,
    <<"-", "-", "v", "s", "y", "n", "c">>,
    <<"-", "-", "n", "o", "-", "v", "s", "y", "n", "c">>,
    <<"-", "-", "d", "l", "s", "y", "m">>,
    <<"-", "f">>,
    <<"-", "w">>,
    <<"-", "h">>,
    <<"-", "W">>,
    <<"-", "H">>,
    <<"-", "r">>,
    <<"-", "F">>,
    <<"-", "S">>,
    <<"-", "n">>,
    <<"-", "b">>,
    <<"-", "-", "f", "o", "r", "c", "e", "-", "g", "r", "a", "b", "-", "c", "u", "r", "s", "o", "r">>,
    <<"-", "-", "e", "x", "p", "o", "s", "e", "-", "w", "a", "y", "l", "a", "n", "d">>,
    <<"-", "-", "h", "d", "r", "-", "e", "n", "a", "b", "l", "e", "d">>,
    <<"-", "-", "a", "d", "a", "p", "t", "i", "v", "e", "-", "s", "y", "n", "c">>,
    <<"-", "-", "i", "m", "m", "e", "d", "i", "a", "t", "e", "-", "f", "l", "i", "p", "s">>,
    <<"-", "-", "m", "a", "n", "g", "o", "a", "p", "p">>}

---------------------------------------------------------------------------
(* Launch command compiler: the sanitizer *)

I32_MAX == <<"2", "1", "4", "7", "4", "8", "3", "6", "4", "7">>
I32_MIN_MAGNITUDE == <<"2", "1", "4", "7", "4", "8", "3", "6", "4", "8">>
U32_MAX == <<"4", "2", "9", "4", "9", "6", "7", "2", "9", "5">>

RECURSIVE StripZeros(_)
StripZeros(digits) ==
    IF Len(digits) > 1 /\ Head(digits) = "0" THEN StripZeros(Tail(digits))
    ELSE digits

\* a <= b for decimal numerals of one length
RECURSIVE DigitsLeq(_, _)
DigitsLeq(a, b) ==
    IF a = <<>> THEN TRUE
    ELSE IF DigitValue(Head(a)) < DigitValue(Head(b)) THEN TRUE
    ELSE IF DigitValue(Head(a)) > DigitValue(Head(b)) THEN FALSE
    ELSE DigitsLeq(Tail(a), Tail(b))

\* the value of the numeral does not overflow the integer type
FitsIn(digits, limit) ==
    LET d == StripZeros(digits)
    IN \/ Len(d) < Len(limit)
       \/ Len(d) = Len(limit) /\ DigitsLeq(d, limit)

AllDigits(s) == \A i \in 1..Len(s) : s[i] \in DigitChars

\* option.parse::<i32>().is_ok(): an optional sign, then decimal digits
\* whose value fits 32 signed bits
parse_i32_is_ok(src) ==
    IF src = <<>> THEN FALSE
    ELSE LET digits == IF src[1] \in {"+", "-"} THEN Tail(src) ELSE src
         IN /\ digits # <<>>
            /\ AllDigits(digits)
            /\ FitsIn(digits, IF src[1] = "-" THEN I32_MIN_MAGNITUDE
                              ELSE I32_MAX)

\* s.parse::<u32>().is_ok(): an optional plus, then decimal digits whose
\* value fits 32 unsigned bits
parse_u32_is_ok(src) ==
    IF src = <<>> THEN FALSE
    ELSE LET digits == IF src[1] = "+" THEN Tail(src) ELSE src
         IN /\ digits # <<>>
            /\ AllDigits(digits)
            /\ FitsIn(digits, U32_MAX)

is_safe_option_AnyInteger(option) ==
    \/ option \in safe_options
    \/ /\ option # <<>>
       /\ LET digits == IF option[1] \in {"+", "-"} THEN Tail(option)
                        ELSE option
          IN digits # <<>> /\ AllDigits(digits)
    \/ /\ Cardinality({i \in 1..Len(option) : option[i] = "x"}) = 1
       /\ LET parts == SplitOn(option, "x", <<>>)
          IN \A i \in 1..Len(parts) : parse_u32_is_ok(parts[i])

is_safe_option(option) ==
    \/ option \in safe_options
    \/ parse_i32_is_ok(option)
    \/ /\ Cardinality({i \in 1..Len(option) : option[i] = "x"}) = 1
       /\ LET parts == SplitOn(option, "x", <<>>)
          IN \A i \in 1..Len(parts) : parse_u32_is_ok(parts[i])

Rejection(e) == [ok |-> FALSE, err |-> e]
Accepted == [ok |-> TRUE, err |-> "none"]

\* the three refusals of sanitize_token
UnsafeOption == {"DangerousCharacter", "DangerousPattern", "DangerousOption"}

sanitize_token(token) ==
    IF \E ch \in dangerous_chars : ContainsChar(token, ch)
    THEN Rejection("DangerousCharacter")
    ELSE IF \E pattern \in dangerous_patterns : ContainsSub(token, pattern)
    THEN Rejection("DangerousPattern")
    ELSE IF \E prefix \in dangerous_prefixes :
                /\ IsPrefixOf(prefix, token)
                /\ token # PLACEHOLDER
                /\ ~is_safe_option(token)
    THEN Rejection("DangerousOption")
    ELSE Accepted

---------------------------------------------------------------------------
(* Launch command compiler: tokenizer, placeholder, wrappers *)

Failure(e) == [ok |-> FALSE, err |-> e, command |-> <<>>]
Success(cmd) == [ok |-> TRUE, err |-> "none", command |-> cmd]

RECURSIVE TokenLoop_SplitInsideQuotes(_, _, _, _)
TokenLoop_SplitInsideQuotes(chars, tokens, current_token, in_quotes) ==
    IF chars = <<>>
    THEN IF current_token # <<>> /\ ~sanitize_token(current_token).ok
         THEN Failure(sanitize_token(current_token).err)
         ELSE IF in_quotes THEN Failure("UnclosedQuote")
         ELSE Success(IF current_token # <<>>
                      THEN Append(tokens, current_token) ELSE tokens)
    ELSE LET ch == Head(chars)
         IN IF ch = QUOTE
            THEN TokenLoop_SplitInsideQuotes(Tail(chars), tokens,
                                             current_token, ~in_quotes)
            ELSE IF ch = SPACE
            THEN IF current_token = <<>>
                 THEN TokenLoop_SplitInsideQuotes(Tail(chars), tokens,
                                                  current_token, in_quotes)
                 ELSE IF ~sanitize_token(current_token).ok
                 THEN Failure(sanitize_token(current_token).err)
                 ELSE TokenLoop_SplitInsideQuotes(
                          Tail(chars), Append(tokens, current_token), <<>>,
                          in_quotes)
            ELSE TokenLoop_SplitInsideQuotes(Tail(chars), tokens,
                                             Append(current_token, ch),
                                             in_quotes)

\* the loop of parse_launch_options and the two checks after it; the
\* tokens are returned in the command field
RECURSIVE TokenLoop(_, _, _, _)
TokenLoop(chars, tokens, current_token, in_quotes) ==
    IF chars = <<>>
    THEN IF current_token # <<>> /\ ~sanitize_token(current_token).ok
         THEN Failure(sanitize_token(current_token).err)
         ELSE IF in_quotes THEN Failure("UnclosedQuote")
         ELSE Success(IF current_token # <<>>
                      THEN Append(tokens, current_token) ELSE tokens)
    ELSE LET ch == Head(chars)
         IN IF ch = QUOTE
            THEN TokenLoop(Tail(chars), tokens, current_token, ~in_quotes)
            ELSE IF ch = SPACE /\ ~in_quotes
            THEN IF current_token = <<>>
                 THEN TokenLoop(Tail(chars), tokens, current_token, in_quotes)
                 ELSE IF ~sanitize_token(current_token).ok
                 THEN Failure(sanitize_token(current_token).err)
                 ELSE TokenLoop(Tail(chars), Append(tokens, current_token),
                                <<>>, in_quotes)
            ELSE TokenLoop(Tail(chars), tokens, Append(current_token, ch),
                           in_quotes)

parse_launch_options(launch_options) ==
    TokenLoop(launch_options, <<>>, <<>>, FALSE)

RECURSIVE PlaceholderLoop_ReplaceEvery(_, _, _, _)
PlaceholderLoop_ReplaceEvery(tokens, base_command, final_command, found) ==
    IF tokens = <<>>
    THEN [ok |-> TRUE, err |-> "none", command |-> final_command,
          found |-> found]
    ELSE IF Head(tokens) = PLACEHOLDER
    THEN PlaceholderLoop_ReplaceEvery(Tail(tokens), base_command,
                                      final_command \o base_command, TRUE)
    ELSE PlaceholderLoop_ReplaceEvery(Tail(tokens), base_command,
                                      Append(final_command, Head(tokens)),
                                      found)

\* the for loop of process_launch_options
RECURSIVE PlaceholderLoop(_, _, _, _)
PlaceholderLoop(tokens, base_command, final_command, found) ==
    IF tokens = <<>>
    THEN [ok |-> TRUE, err |-> "none", command |-> final_command,
          found |-> found]
    ELSE IF Head(tokens) = PLACEHOLDER
    THEN IF found
         THEN [ok |-> FALSE, err |-> "DuplicatePlaceholder",
               command |-> <<>>, found |-> found]
         ELSE PlaceholderLoop(Tail(tokens), base_command,
                              final_command \o base_command, TRUE)
    ELSE PlaceholderLoop(Tail(tokens), base_command,
                         Append(final_command, Head(tokens)), found)

wrap_with_mangohud_IgnoreGamescope(cfg, command) ==
    IF ~cfg.launch.mangohud THEN Success(command)
    ELSE Success(<<MANGOHUD>> \o command)

wrap_with_mangohud(cfg, command) ==
    IF ~cfg.launch.mangohud \/ cfg.gamescope.enabled THEN Success(command)
    ELSE Success(<<MANGOHUD>> \o command)

UpscalingMethods ==
    {"fsr", "nis", "integer", "stretch", "linear", "nearest", "off"}

\* the arms of the match on the upscaling method
UpscalingFlags(upscaling) ==
    CASE upscaling = "fsr" -> <<<<"-", "F">>, <<"f", "s", "r">>>>
      [] upscaling = "nis" -> <<<<"-", "F">>, <<"n", "i", "s">>>>
      [] upscaling = "integer" -> <<<<"-", "S">>, <<"i", "n", "t", "e", "g", "e", "r">>>>
      [] upscaling = "stretch" -> <<<<"-", "S">>, <<"s", "t", "r", "e", "t", "c", "h">>>>
      [] upscaling = "linear" -> <<<<"-", "n">>>>
      [] upscaling = "nearest" -> <<<<"-", "b">>>>
      [] upscaling = "off" -> <<>>

Flag(enabled, word) == IF enabled THEN <<word>> ELSE <<>>

wrap_with_gamescope_NoUpscalingCheck(cfg, command) ==
    LET g == cfg.gamescope
    IN IF ~g.enabled THEN Success(command)
       ELSE Success(
              <<GAMESCOPE>>
              \o (IF g.upscaling \in UpscalingMethods
                  THEN UpscalingFlags(g.upscaling)
                  ELSE UpscalingFlags("fsr"))
              \o Flag(cfg.launch.mangohud, MANGOAPP)
              \o <<SEPARATOR>> \o command)

wrap_with_gamescope(cfg, command) ==
    LET g == cfg.gamescope
    IN IF ~g.enabled THEN Success(command)
       ELSE IF g.upscaling \notin UpscalingMethods
       THEN Failure("InvalidUpscaling")
       ELSE Success(
              <<GAMESCOPE,
                <<"-", "w">>, to_string(g.width),
                <<"-", "h">>, to_string(g.height),
                <<"-", "W">>, to_string(g.output_width),
                <<"-", "H">>, to_string(g.output_height),
                <<"-", "r">>, to_string(g.refresh_rate)>>
              \o UpscalingFlags(g.upscaling)
              \o Flag(g.fullscreen, <<"-", "f">>)
              \o Flag(g.force_grab_cursor, <<"-", "-", "f", "o", "r", "c", "e", "-", "g", "r", "a", "b", "-", "c", "u", "r", "s", "o", "r">>)
              \o Flag(g.expose_wayland, <<"-", "-", "e", "x", "p", "o", "s", "e", "-", "w", "a", "y", "l", "a", "n", "d">>)
              \o Flag(g.hdr, <<"-", "-", "h", "d", "r", "-", "e", "n", "a", "b", "l", "e", "d">>)
              \o Flag(g.adaptive_sync, <<"-", "-", "a", "d", "a", "p", "t", "i", "v", "e", "-", "s", "y", "n", "c">>)
              \o Flag(g.immediate_flips, <<"-", "-", "i", "m", "m", "e", "d", "i", "a", "t", "e", "-", "f", "l", "i", "p", "s">>)
              \o Flag(cfg.launch.mangohud, MANGOAPP)
              \o <<SEPARATOR>> \o command)

wrap_with_gamemode(cfg, command) ==
    IF ~cfg.launch.gamemode THEN Success(command)
    ELSE Success(<<GAMEMODERUN>> \o command)

Wrap_GamemodeInnermost(cfg, command) ==
    LET gamemode_wrapped == wrap_with_gamemode(cfg, command)
        mangohud_wrapped == wrap_with_mangohud(cfg, gamemode_wrapped.command)
    IN wrap_with_gamescope(cfg, mangohud_wrapped.command)

\* mangohud first, then gamescope, then gamemode
Wrap(cfg, command) ==
    LET mangohud_wrapped == wrap_with_mangohud(cfg, command)
        gamescope_wrapped == wrap_with_gamescope(cfg, mangohud_wrapped.command)
    IN IF ~gamescope_wrapped.ok THEN gamescope_wrapped
       ELSE wrap_with_gamemode(cfg, gamescope_wrapped.command)

process_launch_options(cfg, base_command) ==
    IF cfg.launch.launch_options = <<>> THEN Wrap(cfg, base_command)
    ELSE LET parsed == parse_launch_options(cfg.launch.launch_options)
         IN IF ~parsed.ok THEN parsed
            ELSE LET replaced == PlaceholderLoop(parsed.command, base_command,
                                                 <<>>, FALSE)
                 IN IF ~replaced.ok THEN Failure(replaced.err)
                    ELSE Wrap(cfg, IF replaced.found THEN replaced.command
                                   ELSE replaced.command \o base_command)

build_base_command(cfg, proton) ==
    IF ~proton THEN Failure("MissingProtonPath")
    ELSE Success(<<UMU_RUN, cfg.game.executable>> \o cfg.launch.game_args)

\* HashMap::insert
Insert(env, key, value) ==
    [k \in DOMAIN env \cup {key} |-> IF k = key THEN value ELSE env[k]]

\* HashMap::extend
Extend(env, other) ==
    [k \in DOMAIN env \cup DOMAIN other |->
        IF k \in DOMAIN other THEN other[k] ELSE env[k]]

InsertIf(cond, env, key, value) ==
    IF cond THEN Insert(env, key, value) ELSE env

\* the directory with_proton_path is given
ProtonDir == <<SLASH, "r", SLASH, "G", "E">>

\* Path::join on a directory path
Join(path, name) == path \o <<SLASH>> \o name

build_wine_environment_WithOverride(cfg, proton) ==
    [k \in {"WINEARCH", "LAUNCH_OPTIONS"} |->
        IF k = "WINEARCH" THEN <<"w", "i", "n", "6", "4">>
        ELSE cfg.launch.launch_options]

build_wine_environment(cfg, proton) ==
    LET wine_config == cfg.wine_config
        e1 == Insert(NoEnvironment, "WINEARCH", <<"w", "i", "n", "6", "4">>)
        e2 == Insert(e1, "WINEPREFIX", cfg.game.wine_prefix)
        e3 == InsertIf(proton, e2, "PROTONPATH", ProtonDir)
        e4 == Insert(e3, "PROTON_VERB", <<"w", "a", "i", "t", "f", "o", "r", "e", "x", "i", "t", "a", "n", "d", "r", "u", "n">>)
        e5 == Insert(e4, "GAMEID", <<"u", "m", "u", "-", "d", "e", "f", "a", "u", "l", "t">>)
        e6 == Insert(e5, "HOST_LC_ALL", <<"e", "n", "_", "U", "S", DOT, "U", "T", "F", "-", "8">>)
        e7 == InsertIf(wine_config.esync, e6, "WINEESYNC", <<"1">>)
        e8 == InsertIf(wine_config.fsync, e7, "WINEFSYNC", <<"1">>)
        e9 == InsertIf(wine_config.large_address_aware, e8,
                       "WINE_LARGE_ADDRESS_AWARE", <<"1">>)
    IN Insert(e9, "WINEDLLOVERRIDES",
              IF wine_config.dxvk
              THEN <<"d", "3", "d", "1", "0", "c", "o", "r", "e", ",", "d", "3", "d", "1", "1", ",", "d", "3", "d", "9", ",", "d", "x", "g", "i", "=", "n", ",", "b">>
              ELSE <<>>)

build_dxvk_environment(cfg) ==
    IF ~cfg.wine_config.dxvk THEN NoEnvironment
    ELSE LET e1 == Insert(NoEnvironment, "DXVK_HUD",
                          IF cfg.dxvk.hud # <<>> THEN cfg.dxvk.hud
                          ELSE <<"0">>)
             e2 == InsertIf(cfg.wine_config.dxvk_async, e1, "DXVK_ASYNC",
                            <<"1">>)
         IN Insert(e2, "DXVK_STATE_CACHE_PATH",
                   Join(cfg.game.wine_prefix, <<"d", "x", "v", "k", "_", "c", "a", "c", "h", "e">>))

\* CommandBuilder::build: an error of a step is the result; otherwise the
\* command and the environment
build(cfg, proton) ==
    LET base_command == build_base_command(cfg, proton)
        env_vars == Extend(build_wine_environment(cfg, proton),
                           build_dxvk_environment(cfg))
        final_command == IF base_command.ok
                         THEN process_launch_options(cfg, base_command.command)
                         ELSE base_command
    IN [ok |-> final_command.ok, err |-> final_command.err,
        command |-> final_command.command,
        environment |-> IF final_command.ok THEN env_vars ELSE NoEnvironment]

---------------------------------------------------------------------------
(* Launch command compiler: configurations and the specification *)

\* words the override strings are put together from, by single spaces
Words ==
    {PLACEHOLDER, <<>>,
     <<"-", "f">>,
     <<"-", "b", "a", "d">>,
     <<"-", "5">>,
     <<"-", "2", "1", "4", "7", "4", "8", "3", "6", "4", "8">>,
     <<"-", "2", "1", "4", "7", "4", "8", "3", "6", "4", "9">>,
     <<"-", "1", "x", "2">>,
     <<"1", "9", "2", "0", "x", "1", "0", "8", "0">>,
     <<"a">>,
     <<QUOTE, "a">>,
     <<"b", QUOTE>>,
     <<QUOTE, "-", "b", "a", "d">>,
     <<DOT, DOT, SLASH>>,
     <<"$">>,
     <<"V", "A", "R", "=", "1">>}

\* every refused character alone, inside a word, and after the placeholder;
\* every allowlisted flag and some other flag-prefixed words alone
SingleWords ==
    {<<ch>> : ch \in dangerous_chars}
    \cup {<<"a", ch, "b">> : ch \in dangerous_chars}
    \cup {PLACEHOLDER \o <<SPACE, ch>> : ch \in dangerous_chars}
    \cup safe_options
    \cup {<<"-">>,
          <<"-", "-">>,
          <<"-", "-", "b", "a", "d">>,
          <<"-", "+", "5">>,
          <<"-", "0", "0", "0", "5">>,
          <<"-", "5", "x">>,
          <<"-", "x">>,
          <<"+", "5">>,
          <<"+", "2", "1", "4", "7", "4", "8", "3", "6", "4", "8">>,
          <<"4", "2", "9", "4", "9", "6", "7", "2", "9", "5", "x", "1">>,
          <<"4", "2", "9", "4", "9", "6", "7", "2", "9", "6", "x", "1">>,
          <<"1", "x", "2", "x", "3">>,
          <<"a", SLASH, SLASH, "b">>,
          <<"a", BACKSLASH, BACKSLASH, "b">>,
          <<"-", "f", DOT, SLASH>>}

OverrideStrings ==
    {JoinWith(ws, SPACE) : ws \in SeqsUpTo(Words, MaxWords)} \cup SingleWords

PlainOverrideStrings ==
    {<<>>, PLACEHOLDER, <<"a">>, <<"-", "b", "a", "d">>,
     <<"-", "f", SPACE, "%", "c", "o", "m", "m", "a", "n", "d", "%", SPACE, "a">>}

WinePrefix == <<SLASH, "p">>

\* override strings with words that look like parts of the environment
EnvironmentOverrideStrings ==
    {<<>>, PLACEHOLDER, <<"V", "A", "R", "=", "1", SPACE, "%", "c", "o", "m", "m", "a", "n", "d", "%">>,
     <<"W", "I", "N", "E", "E", "S", "Y", "N", "C", "=", "0", SPACE, "%", "c", "o", "m", "m", "a", "n", "d", "%", SPACE, "1">>,
     <<"a", SPACE, "$">>}

Executables == {<<SLASH, "g", SLASH, "a", DOT, "e", "x", "e">>, <<SLASH, "g", SPACE, "(", "x", "8", "6", ")", SLASH, "a", DOT, "e", "x", "e">>}
GameArgs == {<<>>, <<<<"-", "d", "x", "1", "1">>, <<"s", "k", "i", "p", SPACE, "i", "n", "t", "r", "o">>>>}

\* configurations with the wrappers off and every override string
OverrideConfigs ==
    {[game |-> [executable |-> <<SLASH, "g", SLASH, "a", DOT, "e", "x", "e">>, wine_prefix |-> WinePrefix],
      launch |-> [launch_options |-> o, game_args |-> <<>>,
                  gamemode |-> FALSE, mangohud |-> FALSE],
      wine_config |-> DefaultWine,
      dxvk |-> DefaultDxvk,
      gamescope |-> DefaultGamescope] :
        o \in OverrideStrings}

\* wine settings: each switch on and off, with and without a HUD setting
EnvironmentConfigs ==
    {[game |-> [executable |-> <<SLASH, "g", SLASH, "a", DOT, "e", "x", "e">>, wine_prefix |-> WinePrefix],
      launch |-> [launch_options |-> o, game_args |-> <<>>,
                  gamemode |-> FALSE, mangohud |-> FALSE],
      wine_config |-> w,
      dxvk |-> [hud |-> h],
      gamescope |-> DefaultGamescope] :
        o \in EnvironmentOverrideStrings,
        w \in [esync : BOOLEAN, fsync : BOOLEAN, dxvk : BOOLEAN,
               dxvk_async : BOOLEAN, large_address_aware : BOOLEAN],
        h \in {<<>>, <<"f", "p", "s">>}}

\* gamescope settings: the defaults, every display option on, every one off
GamescopeSettings ==
    {DefaultGamescope,
     [enabled |-> FALSE, width |-> 2560, height |-> 1440,
      output_width |-> 3840, output_height |-> 2160, refresh_rate |-> 144,
      upscaling |-> "fsr", fullscreen |-> TRUE, force_grab_cursor |-> TRUE,
      expose_wayland |-> TRUE, hdr |-> TRUE, adaptive_sync |-> TRUE,
      immediate_flips |-> TRUE],
     [enabled |-> FALSE, width |-> 800, height |-> 600,
      output_width |-> 0, output_height |-> 7, refresh_rate |-> 30,
      upscaling |-> "fsr", fullscreen |-> FALSE, force_grab_cursor |-> FALSE,
      expose_wayland |-> FALSE, hdr |-> FALSE, adaptive_sync |-> FALSE,
      immediate_flips |-> FALSE]}

\* configurations with every combination of wrappers
WrapperConfigs ==
    {[game |-> [executable |-> e, wine_prefix |-> WinePrefix],
      launch |-> [launch_options |-> o, game_args |-> a,
                  gamemode |-> gm, mangohud |-> mh],
      wine_config |-> DefaultWine,
      dxvk |-> DefaultDxvk,
      gamescope |-> [g EXCEPT !.enabled = gs, !.upscaling = up]] :
        e \in Executables, o \in PlainOverrideStrings, a \in GameArgs,
        gm \in BOOLEAN, mh \in BOOLEAN, gs \in BOOLEAN,
        up \in UpscalingMethods \cup {"bogus"}, g \in GamescopeSettings}

BuildInit ==
    /\ \/ config \in OverrideConfigs /\ proton_path = TRUE
       \/ config \in EnvironmentConfigs /\ proton_path = TRUE
       \/ config \in WrapperConfigs /\ proton_path \in BOOLEAN
    /\ build_pc = "ready"
    /\ result = NoResult
    /\ ArchIdle /\ InstIdle /\ LaunchIdle /\ FetchIdle /\ StoreIdle

\* one call of CommandBuilder::build
Build ==
    /\ build_pc = "ready"
    /\ result' = build(config, proton_path)
    /\ build_pc' = "built"
    /\ UNCHANGED <<config, proton_path, archVars, instVars, launchVars,
                   fetchVars, storeVars>>

BuildNext == Build

SpecBuild == BuildInit /\ [][BuildNext]_vars

---------------------------------------------------------------------------
(* Properties of the launch command compiler *)

Built == build_pc = "built"
Override == config.launch.launch_options

\* the characters the sanitizer is stated to refuse
Denylist ==
    {"|", "&", ";", BACKTICK, "$", "(", ")", "{", "}", "[", "]", "*", "?",
     "~", "\n", "\r", "\t", "'", QUOTE}

HasDenylisted(word) == \E ch \in Denylist : ContainsChar(word, ch)

\* the base invocation: umu-run, the executable, the game arguments
BaseInvocation == <<UMU_RUN, config.game.executable>> \o config.launch.game_args

\* the words of the configuration that enter the command as they are
ConfiguredWords ==
    {config.game.executable}
    \cup {config.launch.game_args[i] : i \in 1..Len(config.launch.game_args)}

QuotesBefore(s, i) == Cardinality({j \in 1..(i - 1) : s[j] = QUOTE})
UnquotedSpace(s, i) == s[i] = SPACE /\ QuotesBefore(s, i) % 2 = 0
OpenAtEnd(s) == QuotesBefore(s, Len(s) + 1) % 2 = 1
RemoveQuotes(s) == SelectSeq(s, LAMBDA ch : ch # QUOTE)

\* the piece of s from position a up to the next unquoted space
PieceFrom(s, a) ==
    LET ends == {i \in a..Len(s) : UnquotedSpace(s, i)}
        b == IF ends = {} THEN Len(s) + 1
             ELSE CHOOSE i \in ends : \A j \in ends : i <= j
    IN SubSeq(s, a, b - 1)

\* the tokens of s: its pieces between unquoted spaces, quotes removed,
\* empty pieces left out
RECURSIVE TokensFrom(_, _)
TokensFrom(s, a) ==
    IF a > Len(s) THEN <<>>
    ELSE LET piece == PieceFrom(s, a)
             rest == TokensFrom(s, a + Len(piece) + 1)
         IN IF RemoveQuotes(piece) = <<>> THEN rest
            ELSE <<RemoveQuotes(piece)>> \o rest

OverrideTokens == TokensFrom(Override, 1)

Placeholders(tokens) == {i \in 1..Len(tokens) : tokens[i] = PLACEHOLDER}

\* the tokens with the placeholder, if there is one, replaced by the base
\* invocation, and the base invocation at the end otherwise
Substituted(tokens, base) ==
    IF Placeholders(tokens) = {} THEN tokens \o base
    ELSE LET i == CHOOSE k \in Placeholders(tokens) : TRUE
         IN SubSeq(tokens, 1, i - 1) \o base
            \o SubSeq(tokens, i + 1, Len(tokens))

\* the last n words of a command: what the wrappers are put in front of
Inner(command, n) == SubSeq(command, Len(command) - n + 1, Len(command))

NoWrapper ==
    ~config.launch.gamemode /\ ~config.launch.mangohud
    /\ ~config.gamescope.enabled

NoCommand == ~result.ok /\ result.command = <<>>

\* C7: (as stated) a build whose override string holds a denylisted
\* character in a token fails, and no entry of the argv of a successful
\* build contains a denylisted character.
C7_NoDenylistedCharacterInArgv ==
    Built =>
        /\ (\E ch \in Denylist \ {QUOTE} : ContainsChar(Override, ch))
               => NoCommand
        /\ result.ok =>
               \A i \in 1..Len(result.command) :
                   ~HasDenylisted(result.command[i])

\* C7: a build whose override string holds a denylisted character in a
\* token fails with a refusal of the sanitizer, and the only entries of the
\* argv of a successful build that contain a denylisted character are the
\* configured executable path and game arguments, which are not sanitized.
C7_NoDenylistedCharacterFromOverride ==
    Built =>
        /\ (\E ch \in Denylist \ {QUOTE} : ContainsChar(Override, ch))
               => (NoCommand /\ (proton_path => result.err \in UnsafeOption))
        /\ result.ok =>
               \A i \in 1..Len(result.command) :
                   HasDenylisted(result.command[i])
                       => result.command[i] \in ConfiguredWords

C7_Witness ==
    /\ Built /\ proton_path
    /\ Override = <<"%", "c", "o", "m", "m", "a", "n", "d", "%", SPACE, "$">>
    /\ result.err = "DangerousCharacter" /\ NoCommand


FlagPrefixed(token) ==
    token # <<>> /\ token[1] = "-" /\ token # PLACEHOLDER

OnAllowlist(token) == token \in safe_options

\* an optional sign and then one decimal digit or more
BareInteger(token) ==
    /\ token # <<>>
    /\ LET digits == IF token[1] \in {"+", "-"} THEN Tail(token) ELSE token
       IN digits # <<>> /\ AllDigits(digits)

\* a bare integer that a signed 32-bit integer can hold
BareInteger32(token) ==
    /\ BareInteger(token)
    /\ LET digits == IF token[1] \in {"+", "-"} THEN Tail(token) ELSE token
       IN FitsIn(digits, IF token[1] = "-" THEN I32_MIN_MAGNITUDE
                         ELSE I32_MAX)

\* WIDTHxHEIGHT: decimal digits, one x, decimal digits
ResolutionPattern(token) ==
    \E i \in 2..(Len(token) - 1) :
        /\ token[i] = "x"
        /\ AllDigits(SubSeq(token, 1, i - 1))
        /\ AllDigits(SubSeq(token, i + 1, Len(token)))

AllTokens(P(_)) ==
    \A i \in 1..Len(OverrideTokens) : P(OverrideTokens[i])
SomeToken(P(_)) ==
    \E i \in 1..Len(OverrideTokens) : P(OverrideTokens[i])

\* the override string is nothing but flag-prefixed tokens
OnlyFlags == Override # <<>> /\ AllTokens(FlagPrefixed)

Tokenized ==
    /\ Built /\ proton_path /\ Override # <<>>
    /\ result.err \notin UnsafeOption \cup {"UnclosedQuote"}

\* the inner command of a successful build is the expected one
InnerIs(expected) ==
    /\ Len(result.command) >= Len(expected)
    /\ Inner(result.command, Len(expected)) = expected
    /\ NoWrapper => result.command = expected

\* C9: once the override string is tokenized, one placeholder is replaced
\* in place by the whole base invocation, with none the base invocation
\* follows the tokens, and two or more make the build fail with the
\* duplicate-placeholder error and no command.
C9_PlaceholderSubstitution ==
    Tokenized =>
        LET n == Cardinality(Placeholders(OverrideTokens))
        IN /\ n >= 2 => (NoCommand /\ result.err = "DuplicatePlaceholder")
           /\ n <= 1 =>
                /\ result.err # "DuplicatePlaceholder"
                /\ ~config.gamescope.enabled => result.ok
                /\ result.ok =>
                       InnerIs(Substituted(OverrideTokens, BaseInvocation))

C9_Witness ==
    /\ Tokenized /\ result.ok
    /\ Len(OverrideTokens) = 3
    /\ Placeholders(OverrideTokens) = {2}
    /\ OverrideTokens[1] # OverrideTokens[3]
    /\ result.command =
           <<OverrideTokens[1]>> \o BaseInvocation \o <<OverrideTokens[3]>>

\* the tokens that are complete before the last piece of s begins
FinishedTokens(s) ==
    LET spaces == {i \in 1..Len(s) : UnquotedSpace(s, i)}
        cut == IF spaces = {} THEN 0
               ELSE CHOOSE i \in spaces : \A j \in spaces : j <= i
    IN TokensFrom(SubSeq(s, 1, cut), 1)

\* C10: (as stated) the tokens of a successful build are the pieces of the
\* override string between unquoted spaces with the quotes removed, and a
\* string that ends inside a quote, every token before the quoted one being
\* acceptable, makes the build fail with the unclosed-quote error and no
\* command.
C10_QuotedTokenization ==
    (Built /\ proton_path /\ Override # <<>>) =>
        /\ result.ok => InnerIs(Substituted(OverrideTokens, BaseInvocation))
        /\ ( /\ OpenAtEnd(Override)
             /\ \A i \in 1..Len(FinishedTokens(Override)) :
                    sanitize_token(FinishedTokens(Override)[i]).ok )
               => (NoCommand /\ result.err = "UnclosedQuote")

\* C10: the tokens of a successful build are the pieces of the override
\* string between unquoted spaces with the quotes removed, and a string that
\* ends inside a quote makes the build fail with no command: with the
\* unclosed-quote error when the sanitizer accepts every token, the last one
\* included, and with the sanitizer's refusal otherwise.
C10_QuotedTokenizationSanitizerFirst ==
    (Built /\ proton_path /\ Override # <<>>) =>
        /\ result.ok => InnerIs(Substituted(OverrideTokens, BaseInvocation))
        /\ OpenAtEnd(Override) =>
               LET Refused(token) == ~sanitize_token(token).ok
               IN /\ NoCommand
                  /\ ~SomeToken(Refused) => result.err = "UnclosedQuote"
                  /\ SomeToken(Refused) => result.err \in UnsafeOption

C10_Witness ==
    /\ Built /\ proton_path
    /\ Override = <<QUOTE, "a", SPACE, "b", QUOTE, SPACE, QUOTE, "a">>
    /\ OverrideTokens = <<<<"a", SPACE, "b">>, <<"a">>>>
    /\ NoCommand /\ result.err = "UnclosedQuote"

---------------------------------------------------------------------------
(* Properties of the wrappers *)

\* the inner command: the override tokens with the base invocation in them
ExpectedInner == Substituted(OverrideTokens, BaseInvocation)

IfEnabled(enabled, word) == IF enabled THEN <<word>> ELSE <<>>

\* the position of the first separator word of a command, 0 without one
FirstSeparator(command) ==
    LET at == {i \in 1..Len(command) : command[i] = SEPARATOR}
    IN IF at = {} THEN 0 ELSE CHOOSE i \in at : \A j \in at : i <= j

\* the words gamescope is given before any upscaling and display option
ResolutionFlags ==
    <<<<"-", "w">>, to_string(config.gamescope.width),
      <<"-", "h">>, to_string(config.gamescope.height),
      <<"-", "W">>, to_string(config.gamescope.output_width),
      <<"-", "H">>, to_string(config.gamescope.output_height),
      <<"-", "r">>, to_string(config.gamescope.refresh_rate)>>

\* C11: the argv of a successful build is gamemoderun if gamemode is
\* enabled, then gamescope with its flags and the separator if gamescope is
\* enabled, then mangohud if mangohud is enabled and gamescope is not, then
\* the inner command; with only mangohud enabled and an empty override
\* string it is mangohud and the base invocation.
C11_WrapperOrder ==
    (Built /\ result.ok) =>
        LET cmd == result.command
            outer == IfEnabled(config.launch.gamemode, GAMEMODERUN)
            overlay == IfEnabled(config.launch.mangohud
                                 /\ ~config.gamescope.enabled, MANGOHUD)
            rest == SubSeq(cmd, Len(outer) + 1, Len(cmd))
            sep == FirstSeparator(rest)
        IN /\ IsPrefixOf(outer, cmd)
           /\ IF config.gamescope.enabled
              THEN /\ IsPrefixOf(<<GAMESCOPE>> \o ResolutionFlags, rest)
                   /\ sep > 1 + Len(ResolutionFlags)
                   /\ SubSeq(rest, sep + 1, Len(rest))
                          = overlay \o ExpectedInner
              ELSE rest = overlay \o ExpectedInner
           /\ ( /\ Override = <<>> /\ config.launch.mangohud
                /\ ~config.gamescope.enabled /\ ~config.launch.gamemode )
                => cmd = <<MANGOHUD>> \o BaseInvocation

C11_Witness ==
    /\ Built /\ result.ok
    /\ config.launch.gamemode /\ config.gamescope.enabled
    /\ config.launch.mangohud
    /\ Override = <<"-", "f", SPACE, "%", "c", "o", "m", "m", "a", "n", "d", "%", SPACE, "a">>
    /\ result.command[1] = GAMEMODERUN
    /\ result.command[2] = GAMESCOPE
    /\ Inner(result.command, Len(ExpectedInner) + 1)
           = <<SEPARATOR>> \o ExpectedInner

\* the words the wrappers put in front of the inner command
WrapperWords ==
    SubSeq(result.command, 1, Len(result.command) - Len(ExpectedInner))

Has(words, word) == \E i \in 1..Len(words) : words[i] = word

\* the words from gamescope up to its separator
GamescopeWords ==
    SubSeq(WrapperWords, 1, FirstSeparator(WrapperWords))

\* C12: in a successful build with gamescope enabled mangohud is not among
\* the wrapper words and --mangoapp is among the gamescope flags exactly
\* when mangohud is enabled; with gamescope disabled no wrapper word is
\* --mangoapp.
C12_OverlayExclusive ==
    (Built /\ result.ok) =>
        IF config.gamescope.enabled
        THEN /\ ~Has(WrapperWords, MANGOHUD)
             /\ WrapperWords[Len(WrapperWords)] = SEPARATOR
             /\ Has(GamescopeWords, MANGOAPP) <=> config.launch.mangohud
        ELSE ~Has(WrapperWords, MANGOAPP)

C12_Witness ==
    /\ Built /\ result.ok
    /\ config.gamescope.enabled /\ config.launch.mangohud
    /\ Has(GamescopeWords, MANGOAPP)
    /\ ~Has(result.command, MANGOHUD)
    /\ Len(GamescopeWords) = Len(WrapperWords)

---------------------------------------------------------------------------
(* Properties of the environment *)

\* the configuration with the override string taken out
WithoutOverride == [config EXCEPT !.launch.launch_options = <<>>]

\* the names the compiler gives to environment variables
CompilerKeys ==
    {"WINEARCH", "WINEPREFIX", "PROTONPATH", "PROTON_VERB", "GAMEID",
     "HOST_LC_ALL", "WINEESYNC", "WINEFSYNC", "WINE_LARGE_ADDRESS_AWARE",
     "WINEDLLOVERRIDES", "DXVK_HUD", "DXVK_ASYNC", "DXVK_STATE_CACHE_PATH"}

\* the values the compiler gives them: fixed words and settings other than
\* the override string
CompilerValues ==
    {<<"w", "i", "n", "6", "4">>,
     <<"w", "a", "i", "t", "f", "o", "r", "e", "x", "i", "t", "a", "n", "d", "r", "u", "n">>,
     <<"u", "m", "u", "-", "d", "e", "f", "a", "u", "l", "t">>,
     <<"e", "n", "_", "U", "S", DOT, "U", "T", "F", "-", "8">>,
     <<"1">>,
     <<"0">>,
     <<>>,
     <<"d", "3", "d", "1", "0", "c", "o", "r", "e", ",", "d", "3", "d", "1", "1", ",", "d", "3", "d", "9", ",", "d", "x", "g", "i", "=", "n", ",", "b">>,
     ProtonDir, config.game.wine_prefix, config.dxvk.hud,
     config.game.wine_prefix \o <<SLASH, "d", "x", "v", "k", "_", "c", "a", "c", "h", "e">>}

\* C13: the environment of a successful build is the environment the same
\* configuration gives with an empty override string, and each of its keys
\* and values is a word of the compiler or a setting other than the
\* override string.
C13_EnvironmentIndependentOfOverride ==
    (Built /\ result.ok) =>
        /\ build(WithoutOverride, proton_path).ok
        /\ result.environment
               = build(WithoutOverride, proton_path).environment
        /\ DOMAIN result.environment \subseteq CompilerKeys
        /\ \A k \in DOMAIN result.environment :
               result.environment[k] \in CompilerValues

C13_Witness ==
    /\ Built /\ result.ok
    /\ Override = <<"W", "I", "N", "E", "E", "S", "Y", "N", "C", "=", "0", SPACE, "%", "c", "o", "m", "m", "a", "n", "d", "%", SPACE, "1">>
    /\ config.wine_config.esync /\ ~config.wine_config.dxvk
    /\ result.environment["WINEESYNC"] = <<"1">>
    /\ "DXVK_HUD" \notin DOMAIN result.environment
    /\ result.environment
           = build(WithoutOverride, proton_path).environment

---------------------------------------------------------------------------
(* Properties of the compiled argv and of the upscaling method *)

\* C14: (as stated) the argv of a successful build is not empty and its
\* first word is a program name: not an option and not an environment
\* assignment.
C14_ArgvStartsWithProgram ==
    (Built /\ result.ok) =>
        /\ result.command # <<>>
        /\ result.command[1] # <<>>
        /\ result.command[1][1] # "-"
        /\ ~ContainsChar(result.command[1], "=")

\* the upscaling methods gamescope is stated to know
StatedUpscalingMethods ==
    {"fsr", "nis", "integer", "stretch", "linear", "nearest", "off"}

\* the steps of a build before the wrappers failed
FailedBeforeWrappers ==
    result.err \in {"MissingProtonPath", "UnclosedQuote",
                    "DuplicatePlaceholder"} \cup UnsafeOption

\* C15: with gamescope enabled and an upscaling method that is not one of
\* the seven a build produces no command, and unless an earlier step of the
\* build has failed the error is the invalid-upscaling error; with one of
\* the seven that error does not occur.
C15_InvalidUpscalingFails ==
    (Built /\ config.gamescope.enabled) =>
        IF config.gamescope.upscaling \notin StatedUpscalingMethods
        THEN /\ NoCommand
             /\ ~FailedBeforeWrappers => result.err = "InvalidUpscaling"
        ELSE result.err # "InvalidUpscaling"

C15_Witness ==
    /\ Built /\ proton_path /\ config.gamescope.enabled
    /\ config.gamescope.upscaling = "bogus"
    /\ Override = <<"-", "f", SPACE, "%", "c", "o", "m", "m", "a", "n", "d", "%", SPACE, "a">>
    /\ NoCommand /\ result.err = "InvalidUpscaling"

---------------------------------------------------------------------------
(* Game launcher: launch_game and the executor *)

LaunchOk == [state |-> "ok", err |-> "none", lines |-> <<>>]
LaunchErr(e) == [state |-> "err", err |-> e, lines |-> <<>>]

\* validate_launch_config: "ok" or the error it returns
validate_launch_config(h) ==
    IF ~h.executable_exists THEN "ExecutableNotFound"
    ELSE IF ~h.prefix_exists THEN "PrefixNotFound"
    ELSE IF ~h.system32_exists THEN "PrefixIncomplete"
    ELSE "ok"

\* find_proton_installation: "ok" or the error it returns
find_proton_installation(h) ==
    IF h.runner_installed THEN "ok" ELSE "ProtonNotFound"

Try_Unchecked(ok, next) == next

\* the ? operator: go on to the next step, or return the error
Try(ok, next) == IF ok THEN next ELSE "done"

needs_shell(args) == args # <<>> /\ ContainsChar(args[1], "=")

RECURSIVE Replace(_, _, _)
\* str::replace of one character by a string
Replace(str, ch, by) ==
    IF str = <<>> THEN <<>>
    ELSE (IF Head(str) = ch THEN by ELSE <<Head(str)>>)
         \o Replace(Tail(str), ch, by)

shell_quote(arg) ==
    IF \/ ContainsChar(arg, SPACE) \/ ContainsChar(arg, QUOTE)
       \/ ContainsChar(arg, "'") \/ ContainsChar(arg, BACKSLASH)
    THEN <<QUOTE>> \o Replace(arg, QUOTE, <<BACKSLASH, QUOTE>>) \o <<QUOTE>>
    ELSE arg

shell_quote_command(args) ==
    JoinWith([i \in 1..Len(args) |-> shell_quote(args[i])], SPACE)

UpperCase ==
    <<"A", "B", "C", "D", "E", "F", "G", "H", "I", "J", "K", "L", "M",
      "N", "O", "P", "Q", "R", "S", "T", "U", "V", "W", "X", "Y", "Z">>
LowerCase ==
    <<"a", "b", "c", "d", "e", "f", "g", "h", "i", "j", "k", "l", "m",
      "n", "o", "p", "q", "r", "s", "t", "u", "v", "w", "x", "y", "z">>

\* str::to_lowercase on the letters A to Z
to_lowercase(str) ==
    [i \in 1..Len(str) |->
        IF \E k \in 1..26 : UpperCase[k] = str[i]
        THEN LowerCase[CHOOSE k \in 1..26 : UpperCase[k] = str[i]]
        ELSE str[i]]

\* line.trim().is_empty()
IsBlank(line) == \A i \in 1..Len(line) : line[i] \in {SPACE, "\t", "\r"}

is_critical_CaseSensitive(line) ==
    /\ \/ ContainsSub(line, <<"e", "r", "r", "o", "r">>)
       \/ ContainsSub(line, <<"f", "a", "i", "l", "e", "d">>)
    /\ ~ContainsSub(line, <<"f", "i", "x", "m", "e", ":">>)
    /\ ~ContainsSub(line, <<"e", "r", "r", ":", "s", "e", "t", "u", "p", "a", "p", "i", ":", "c", "r", "e", "a", "t", "e", "_", "d", "e", "s", "t", "_", "f", "i", "l", "e">>)
    /\ ~ContainsSub(line, <<"w", "i", "n", "e", "-", "s", "t", "a", "g", "i", "n", "g">>)
    /\ ~ContainsSub(line, <<"e", "x", "p", "e", "r", "i", "m", "e", "n", "t", "a", "l", SPACE, "p", "a", "t", "c", "h", "e", "s">>)
    /\ ~ContainsSub(line, <<"w", "i", "n", "e", "d", "i", "a", "g", ":">>)
    /\ ~ContainsSub(to_lowercase(line), <<"s", "t", "u", "b">>)
    /\ ~IsBlank(line)

\* the filter of handle_command_output
is_critical(line) ==
    LET line_lower == to_lowercase(line)
    IN /\ \/ ContainsSub(line_lower, <<"e", "r", "r", "o", "r">>)
          \/ ContainsSub(line_lower, <<"f", "a", "i", "l", "e", "d">>)
       /\ ~ContainsSub(line, <<"f", "i", "x", "m", "e", ":">>)
       /\ ~ContainsSub(line, <<"e", "r", "r", ":", "s", "e", "t", "u", "p", "a", "p", "i", ":", "c", "r", "e", "a", "t", "e", "_", "d", "e", "s", "t", "_", "f", "i", "l", "e">>)
       /\ ~ContainsSub(line, <<"w", "i", "n", "e", "-", "s", "t", "a", "g", "i", "n", "g">>)
       /\ ~ContainsSub(line, <<"e", "x", "p", "e", "r", "i", "m", "e", "n", "t", "a", "l", SPACE, "p", "a", "t", "c", "h", "e", "s">>)
       /\ ~ContainsSub(line, <<"w", "i", "n", "e", "d", "i", "a", "g", ":">>)
       /\ ~ContainsSub(line_lower, <<"s", "t", "u", "b">>)
       /\ ~IsBlank(line)

\* handle_command_output, given the exit code and the lines of stderr
handle_command_output(exit_code, stderr) ==
    IF exit_code # 0
    THEN LET critical_errors == SelectSeq(stderr, is_critical)
         IN IF critical_errors # <<>>
            THEN [state |-> "err", err |-> "LaunchFailed",
                  lines |-> critical_errors]
            ELSE LaunchOk
    ELSE LaunchOk


Hosts ==
    [executable_exists : BOOLEAN, prefix_exists : BOOLEAN,
     system32_exists : BOOLEAN, runner_installed : BOOLEAN]

LaunchOverrideStrings ==
    {<<>>, PLACEHOLDER,
     <<"V", "A", "R", "=", "1", SPACE, "%", "c", "o", "m", "m", "a", "n", "d", "%">>,
     <<"-", "f", SPACE, "%", "c", "o", "m", "m", "a", "n", "d", "%">>,
     <<"a", "=", "b">>,
     <<"-", "b", "a", "d", SPACE, "%", "c", "o", "m", "m", "a", "n", "d", "%">>,
     <<"a", SPACE, QUOTE, "b">>,
     <<"%", "c", "o", "m", "m", "a", "n", "d", "%", SPACE, "%", "c", "o", "m", "m", "a", "n", "d", "%">>,
     <<"%", "c", "o", "m", "m", "a", "n", "d", "%", SPACE, "V", "A", "R", "=", "1">>}

\* wrapper settings: none, gamemoderun alone, gamescope with the overlay,
\* gamescope with an upscaling method the compiler refuses
LaunchWrappers ==
    {[gamemode |-> FALSE, mangohud |-> FALSE, gamescope |-> FALSE,
      upscaling |-> "fsr"],
     [gamemode |-> TRUE, mangohud |-> FALSE, gamescope |-> FALSE,
      upscaling |-> "fsr"],
     [gamemode |-> FALSE, mangohud |-> TRUE, gamescope |-> TRUE,
      upscaling |-> "fsr"],
     [gamemode |-> TRUE, mangohud |-> FALSE, gamescope |-> TRUE,
      upscaling |-> "bogus"]}

\* the configurations launch_game is called with
LaunchConfigs ==
    {[game |-> [executable |-> <<SLASH, "g", SLASH, "a", DOT, "e", "x", "e">>, wine_prefix |-> WinePrefix],
      launch |-> [launch_options |-> o, game_args |-> <<>>,
                  gamemode |-> w.gamemode, mangohud |-> w.mangohud],
      wine_config |-> DefaultWine,
      dxvk |-> DefaultDxvk,
      gamescope |-> [DefaultGamescope EXCEPT !.enabled = w.gamescope,
                                             !.upscaling = w.upscaling]] :
        o \in LaunchOverrideStrings, w \in LaunchWrappers}

\* lines a child may write to standard error
StderrLines ==
    {<<"e", "r", "r", "o", "r", ":", SPACE, "x">>,
     <<"L", "o", "a", "d", SPACE, "F", "A", "I", "L", "E", "D">>,
     <<"f", "i", "x", "m", "e", ":", SPACE, "e", "r", "r", "o", "r">>,
     <<"F", "I", "X", "M", "E", ":", SPACE, "e", "r", "r", "o", "r">>,
     <<"e", "r", "r", ":", "s", "e", "t", "u", "p", "a", "p", "i", ":", "c", "r", "e", "a", "t", "e", "_", "d", "e", "s", "t", "_", "f", "i", "l", "e", SPACE, "f", "a", "i", "l", "e", "d">>,
     <<"w", "i", "n", "e", "-", "s", "t", "a", "g", "i", "n", "g", SPACE, "e", "r", "r", "o", "r">>,
     <<"e", "x", "p", "e", "r", "i", "m", "e", "n", "t", "a", "l", SPACE, "p", "a", "t", "c", "h", "e", "s", SPACE, "f", "a", "i", "l", "e", "d">>,
     <<"w", "i", "n", "e", "d", "i", "a", "g", ":", SPACE, "e", "r", "r", "o", "r">>,
     <<"S", "T", "U", "B", SPACE, "e", "r", "r", "o", "r">>,
     <<"w", "a", "r", "n", "i", "n", "g", ":", SPACE, "x">>,
     <<>>,
     <<SPACE, SPACE>>}

StderrOutputs == SeqsUpTo(StderrLines, MaxLines)

\* exit statuses: success, a failure code, the code of a crash
ExitCodes == {0, 1, 255}

SH == <<"s", "h">>
DASH_C == <<"-", "c">>

LaunchInit ==
    /\ launch_pc = "start"
    /\ host \in Hosts
    /\ config \in LaunchConfigs
    /\ proton_path = FALSE /\ build_pc = "ready" /\ result = NoResult
    /\ launch_trace = <<>> /\ child = NoChild
    /\ launch_result = NoLaunchResult
    /\ ArchIdle /\ InstIdle /\ FetchIdle /\ StoreIdle

\* self.validate_launch_config(game_config)?
LaunchValidate ==
    /\ launch_pc = "start"
    /\ LET v == validate_launch_config(host)
       IN /\ launch_pc' = Try(v = "ok", "validated")
          /\ launch_result' = IF v = "ok" THEN launch_result ELSE LaunchErr(v)
          /\ launch_trace' = IF v = "ok" THEN Append(launch_trace, "validate")
                             ELSE launch_trace
    /\ UNCHANGED <<host, child, buildVars, archVars, instVars, fetchVars, storeVars>>

\* self.find_proton_installation(..).await?
LaunchResolve ==
    /\ launch_pc = "validated"
    /\ LET f == find_proton_installation(host)
       IN /\ launch_pc' = Try(f = "ok", "resolved")
          /\ proton_path' = (f = "ok")
          /\ launch_result' = IF f = "ok" THEN launch_result ELSE LaunchErr(f)
          /\ launch_trace' = IF f = "ok" THEN Append(launch_trace, "resolve")
                             ELSE launch_trace
    /\ UNCHANGED <<host, child, config, build_pc, result, archVars, instVars,
                   fetchVars, storeVars>>

\* CommandBuilder::new(..).with_proton_path(proton_path).build()?
LaunchBuild ==
    /\ launch_pc = "resolved"
    /\ LET b == build(config, proton_path)
       IN /\ result' = b
          /\ build_pc' = "built"
          /\ launch_pc' = Try(b.ok, "compiled")
          /\ launch_result' = IF b.ok THEN launch_result ELSE LaunchErr(b.err)
          /\ launch_trace' = IF b.ok THEN Append(launch_trace, "build")
                             ELSE launch_trace
    /\ UNCHANGED <<host, child, config, proton_path, archVars, instVars,
                   fetchVars, storeVars>>

\* execute_launch_command up to command.spawn()?: through sh -c when the
\* first word holds an equals sign, directly otherwise; the spawn may fail
LaunchSpawn ==
    /\ launch_pc = "compiled"
    /\ result.command # <<>>
    /\ \E spawn_ok \in BOOLEAN :
        /\ launch_pc' = Try(spawn_ok, "running")
        /\ launch_result' = IF spawn_ok THEN launch_result
                            ELSE LaunchErr("SpawnFailed")
        /\ launch_trace' = IF spawn_ok THEN Append(launch_trace, "spawn")
                           ELSE launch_trace
        /\ child' = IF ~spawn_ok THEN child
                    ELSE IF needs_shell(result.command)
                    THEN [child EXCEPT
                            !.spawned = TRUE, !.via = "sh", !.program = SH,
                            !.args = <<DASH_C,
                                       shell_quote_command(result.command)>>]
                    ELSE [child EXCEPT
                            !.spawned = TRUE, !.via = "direct",
                            !.program = Head(result.command),
                            !.args = Tail(result.command)]
    /\ UNCHANGED <<host, buildVars, archVars, instVars, fetchVars, storeVars>>

\* handle_command_output: the child ends with a status and its stderr
LaunchExit ==
    /\ launch_pc = "running"
    /\ \E exit_code \in ExitCodes, stderr \in StderrOutputs :
        /\ child' = [child EXCEPT !.exit_code = exit_code,
                                  !.stderr = stderr]
        /\ launch_result' = handle_command_output(exit_code, stderr)
    /\ launch_pc' = "done"
    /\ launch_trace' = Append(launch_trace, "wait")
    /\ UNCHANGED <<host, buildVars, archVars, instVars, fetchVars, storeVars>>

LaunchNext ==
    LaunchValidate \/ LaunchResolve \/ LaunchBuild \/ LaunchSpawn
    \/ LaunchExit

SpecLaunch == LaunchInit /\ [][LaunchNext]_vars

---------------------------------------------------------------------------
(* Properties of the game launcher *)

\* the steps of launch_game in the order of the code
LaunchOrder == <<"validate", "resolve", "build", "spawn", "wait">>

CompilationErrors ==
    {"MissingProtonPath", "UnclosedQuote", "DuplicatePlaceholder",
     "InvalidUpscaling"} \cup UnsafeOption

\* C16: a child is spawned only after validation, runtime resolution and
\* compilation have succeeded, in that order, and a compilation error is
\* what launch_game returns, with no child spawned.
C16_SpawnAfterCompilation ==
    /\ IsPrefixOf(launch_trace, LaunchOrder)
    /\ child.spawned =>
           /\ IsPrefixOf(<<"validate", "resolve", "build", "spawn">>,
                         launch_trace)
           /\ host.executable_exists /\ host.prefix_exists
           /\ host.system32_exists /\ host.runner_installed
           /\ proton_path /\ build_pc = "built" /\ result.ok
    /\ (build_pc = "built" /\ ~result.ok) =>
           /\ result.err \in CompilationErrors
           /\ ~child.spawned
           /\ launch_pc = "done"
           /\ launch_result = [state |-> "err", err |-> result.err,
                               lines |-> <<>>]

C16_Witness ==
    /\ launch_pc = "done" /\ build_pc = "built"
    /\ result.err = "UnclosedQuote"
    /\ launch_trace = <<"validate", "resolve">>
    /\ ~child.spawned /\ launch_result.err = "UnclosedQuote"

Letter(ch) ==
    \E k \in 1..26 : ch = UpperCase[k] \/ ch = LowerCase[k]

\* NAME=value, NAME made of letters, digits and underscores
AssignmentStyle(token) ==
    \E i \in 2..Len(token) :
        /\ token[i] = "="
        /\ Letter(token[1]) \/ token[1] = "_"
        /\ \A j \in 1..(i - 1) :
               Letter(token[j]) \/ token[j] = "_" \/ token[j] \in DigitChars

\* C17: (as stated) a spawned child goes through the command interpreter
\* when the override string starts with an assignment-style token,
\* whichever wrappers are enabled, and is spawned directly otherwise.
C17_ShellIffAssignment ==
    child.spawned =>
        (child.via = "sh"
            <=> (OverrideTokens # <<>> /\ AssignmentStyle(OverrideTokens[1])))

\* the lines of standard error that make a non-zero exit a failure
Critical(line) ==
    /\ \/ ContainsSub(to_lowercase(line), <<"e", "r", "r", "o", "r">>)
       \/ ContainsSub(to_lowercase(line), <<"f", "a", "i", "l", "e", "d">>)
    /\ \A benign \in {<<"f", "i", "x", "m", "e", ":">>,
                      <<"e", "r", "r", ":", "s", "e", "t", "u", "p", "a", "p", "i", ":", "c", "r", "e", "a", "t", "e", "_", "d", "e", "s", "t", "_", "f", "i", "l", "e">>,
                      <<"w", "i", "n", "e", "-", "s", "t", "a", "g", "i", "n", "g">>,
                      <<"e", "x", "p", "e", "r", "i", "m", "e", "n", "t", "a", "l", SPACE, "p", "a", "t", "c", "h", "e", "s">>,
                      <<"w", "i", "n", "e", "d", "i", "a", "g", ":">>} :
           ~ContainsSub(line, benign)
    /\ ~ContainsSub(to_lowercase(line), <<"s", "t", "u", "b">>)
    /\ ~IsBlank(line)

ChildExited == launch_pc = "done" /\ IsPrefixOf(LaunchOrder, launch_trace)

\* C18: after exit status zero the run succeeds; after a non-zero status
\* it fails exactly when some line of standard error is critical, and the
\* failure carries exactly the critical lines, in order.
C18_ExitClassification ==
    ChildExited =>
        IF child.exit_code = 0 THEN launch_result = LaunchOk
        ELSE IF \E i \in 1..Len(child.stderr) : Critical(child.stderr[i])
        THEN /\ launch_result.state = "err"
             /\ launch_result.err = "LaunchFailed"
             /\ launch_result.lines = SelectSeq(child.stderr, Critical)
        ELSE launch_result = LaunchOk

C18_Witness ==
    /\ ChildExited /\ child.exit_code # 0
    /\ child.stderr = <<<<"f", "i", "x", "m", "e", ":", SPACE, "e", "r", "r", "o", "r">>, <<"L", "o", "a", "d", SPACE, "F", "A", "I", "L", "E", "D">>>>
    /\ launch_result.state = "err"
    /\ launch_result.lines = <<<<"L", "o", "a", "d", SPACE, "F", "A", "I", "L", "E", "D">>>>

---------------------------------------------------------------------------
\* The download of a runner archive from a GitHub release:
\* BaseGitHubRunner::download_from_github (DXVK) and
\* ProtonManager::download_ge_proton (Proton)

MaxAssets == 2
MaxSize == 2

FetchOk == [state |-> "ok", err |-> "none"]
FetchErr(e) == [state |-> "err", err |-> e]

TAR_GZ == <<".", "t", "a", "r", ".", "g", "z">>
SOURCE == <<"s", "o", "u", "r", "c", "e">>

ends_with(s, suffix) ==
    /\ Len(suffix) <= Len(s)
    /\ SubSeq(s, Len(s) - Len(suffix) + 1, Len(s)) = suffix

\* the asset_filter of DxvkManager::new
dxvk_asset_filter(name) ==
    ends_with(name, TAR_GZ) /\ ~ContainsSub(name, SOURCE)

\* the closure of download_ge_proton
proton_asset_filter(name) == ends_with(name, TAR_GZ)

asset_filter(family, name) ==
    IF family = "dxvk" THEN dxvk_asset_filter(name)
    ELSE proton_asset_filter(name)

\* assets.iter().find(filter): the index of the first match, 0 for None
find(family, assets) ==
    LET matching == {i \in 1..Len(assets) :
                        asset_filter(family, assets[i].name)}
    IN  IF matching = {} THEN 0
        ELSE CHOOSE i \in matching : \A j \in matching : i <= j

\* the asset the download works on once find returned Some
Asset == remote.assets[find(fetch_family, remote.assets)]

exceeds_AtCeiling(size, max_download_size) == size >= max_download_size

\* asset.size > self.config.max_download_size
exceeds(size, max_download_size) == size > max_download_size

\* if let Some(content_length) = .. { if content_length != asset.size
length_mismatch(content_length, size) ==
    content_length # <<>> /\ content_length[1] # size

AssetNames ==
    { <<"a">> \o TAR_GZ, SOURCE \o TAR_GZ, <<"a", ".", "z", "i", "p">> }
Sizes == 1..MaxSize
Assets == [name : AssetNames, size : Sizes]
Ceilings == {1, 2}
Remotes ==
    [release_found : BOOLEAN, assets : SeqsUpTo(Assets, MaxAssets),
     download_ok : BOOLEAN, content_length : SeqsUpTo(0..MaxSize, 1),
     bytes : 0..MaxSize, max_download_size : Ceilings]

FetchInit ==
    /\ fetch_family \in {"proton", "dxvk"}
    /\ remote \in Remotes
    /\ fetch_pc = "release"
    /\ fetch_log = <<>>
    /\ temp_file = NoFile
    /\ fetch_result = NoFetchResult
    /\ ArchIdle /\ InstIdle /\ BuildIdle /\ LaunchIdle /\ StoreIdle

Finish(r) == fetch_pc' = "done" /\ fetch_result' = r
Continue(pc) == fetch_pc' = pc /\ UNCHANGED fetch_result
FetchFrame ==
    UNCHANGED <<fetch_family, remote, archVars, instVars, buildVars,
                launchVars, storeVars>>

\* download_from_github: the release lookup and its status
GitHubRelease ==
    /\ fetch_family = "dxvk" /\ fetch_pc = "release"
    /\ IF ~remote.release_found
       THEN /\ fetch_log' = Append(fetch_log, "release_request")
            /\ Finish(FetchErr("ReleaseNotFound"))
       ELSE /\ fetch_log' = fetch_log \o <<"release_request", "release_ok">>
            /\ Continue("select")
    /\ UNCHANGED temp_file
    /\ FetchFrame

\* download_from_github: the release is parsed, the asset is selected and
\* its declared size is compared with the ceiling
GitHubSelect ==
    /\ fetch_family = "dxvk" /\ fetch_pc = "select"
    /\ IF find("dxvk", remote.assets) = 0
       THEN /\ UNCHANGED fetch_log
            /\ Finish(FetchErr("AssetNotFound"))
       ELSE IF exceeds(Asset.size, remote.max_download_size)
       THEN /\ fetch_log' = Append(fetch_log, "asset_matched")
            /\ Finish(FetchErr("AssetTooLarge"))
       ELSE /\ fetch_log' = fetch_log \o <<"asset_matched", "size_ok">>
            /\ Continue("asset")
    /\ UNCHANGED temp_file
    /\ FetchFrame

\* download_from_github: the request for the asset, its status and the
\* content length the transport reports
GitHubAsset ==
    /\ fetch_family = "dxvk" /\ fetch_pc = "asset"
    /\ fetch_log' = Append(fetch_log, "asset_request")
    /\ IF ~remote.download_ok
       THEN Finish(FetchErr("DownloadFailed"))
       ELSE IF length_mismatch(remote.content_length, Asset.size)
       THEN Finish(FetchErr("SizeMismatch"))
       ELSE Continue("body")
    /\ UNCHANGED temp_file
    /\ FetchFrame

\* download_from_github: the body is received and counted
GitHubBody ==
    /\ fetch_family = "dxvk" /\ fetch_pc = "body"
    /\ fetch_log' = Append(fetch_log, "body_received")
    /\ IF remote.bytes # Asset.size
       THEN Finish(FetchErr("SizeMismatch"))
       ELSE Continue("write")
    /\ UNCHANGED temp_file
    /\ FetchFrame

\* download_from_github: fs::write(temp_dir.join(asset.name), bytes)
GitHubWrite ==
    /\ fetch_family = "dxvk" /\ fetch_pc = "write"
    /\ temp_file' = [name |-> Asset.name, len |-> remote.bytes]
    /\ Finish(FetchOk)
    /\ UNCHANGED fetch_log
    /\ FetchFrame

\* download_ge_proton: the release lookup and its status
GeProtonRelease ==
    /\ fetch_family = "proton" /\ fetch_pc = "release"
    /\ IF ~remote.release_found
       THEN /\ fetch_log' = Append(fetch_log, "release_request")
            /\ Finish(FetchErr("ReleaseNotFound"))
       ELSE /\ fetch_log' = fetch_log \o <<"release_request", "release_ok">>
            /\ Continue("select")
    /\ UNCHANGED temp_file
    /\ FetchFrame

\* download_ge_proton: the release is parsed and the asset is selected
GeProtonSelect ==
    /\ fetch_family = "proton" /\ fetch_pc = "select"
    /\ IF find("proton", remote.assets) = 0
       THEN /\ UNCHANGED fetch_log
            /\ Finish(FetchErr("AssetNotFound"))
       ELSE /\ fetch_log' = Append(fetch_log, "asset_matched")
            /\ Continue("asset")
    /\ UNCHANGED temp_file
    /\ FetchFrame

\* download_ge_proton: the request for the asset and its status
GeProtonAsset ==
    /\ fetch_family = "proton" /\ fetch_pc = "asset"
    /\ fetch_log' = Append(fetch_log, "asset_request")
    /\ IF ~remote.download_ok
       THEN Finish(FetchErr("DownloadFailed"))
       ELSE Continue("body")
    /\ UNCHANGED temp_file
    /\ FetchFrame

\* download_ge_proton: the body is received
GeProtonBody ==
    /\ fetch_family = "proton" /\ fetch_pc = "body"
    /\ fetch_log' = Append(fetch_log, "body_received")
    /\ Continue("write")
    /\ UNCHANGED temp_file
    /\ FetchFrame

\* download_ge_proton: fs::write(temp_dir.join(asset.name), bytes)
GeProtonWrite ==
    /\ fetch_family = "proton" /\ fetch_pc = "write"
    /\ temp_file' = [name |-> Asset.name, len |-> remote.bytes]
    /\ Finish(FetchOk)
    /\ UNCHANGED fetch_log
    /\ FetchFrame

FetchNext ==
    \/ GitHubRelease \/ GitHubSelect \/ GitHubAsset \/ GitHubBody
    \/ GitHubWrite
    \/ GeProtonRelease \/ GeProtonSelect \/ GeProtonAsset \/ GeProtonBody
    \/ GeProtonWrite

SpecFetch == FetchInit /\ [][FetchNext]_vars

---------------------------------------------------------------------------
\* Properties of the download

RequestOrder ==
    <<"release_request", "release_ok", "asset_matched", "size_ok",
      "asset_request">>

Matched == find(fetch_family, remote.assets) # 0
WithinCeiling == Matched /\ Asset.size <= remote.max_download_size
UpFrontErrors == {"ReleaseNotFound", "AssetNotFound", "AssetTooLarge"}

\* C19: download_from_github requests the asset body only after the release
\* lookup succeeded, an asset satisfied the selection predicate and the
\* declared size of that asset is at most the ceiling, in this order (a size
\* equal to the ceiling is accepted); when one of the three checks fails
\* its error is returned, no asset request is sent and no temporary file is
\* written
C19_RequestAfterChecks ==
    fetch_family = "dxvk" =>
        /\ Has(fetch_log, "asset_request") =>
            /\ IsPrefixOf(RequestOrder, fetch_log)
            /\ remote.release_found /\ WithinCeiling
        /\ fetch_pc = "done" =>
            /\ fetch_result.err = "ReleaseNotFound"
                <=> ~remote.release_found
            /\ fetch_result.err = "AssetNotFound"
                <=> (remote.release_found /\ ~Matched)
            /\ fetch_result.err = "AssetTooLarge"
                <=> (remote.release_found /\ Matched /\ ~WithinCeiling)
            /\ fetch_result.err \in UpFrontErrors =>
                ~Has(fetch_log, "asset_request") /\ temp_file = NoFile
            /\ (remote.release_found /\ WithinCeiling) =>
                Has(fetch_log, "asset_request")

C19_Witness ==
    /\ fetch_family = "dxvk" /\ fetch_pc = "done"
    /\ Len(remote.assets) = 2
    /\ find("dxvk", remote.assets) = 2
    /\ Asset.size = remote.max_download_size
    /\ Has(fetch_log, "asset_request")
    /\ fetch_result = FetchOk
    /\ temp_file = [name |-> Asset.name, len |-> Asset.size]

\* the download got as far as the answer to the asset request
BodyAnswered ==
    /\ fetch_pc = "done"
    /\ remote.release_found /\ Matched /\ remote.download_ok
    /\ fetch_result.err # "AssetTooLarge"

SizeDiffers ==
    \/ remote.content_length # <<>>
        /\ remote.content_length[1] # Asset.size
    \/ remote.bytes # Asset.size

\* C20: for Proton and DXVK alike, when the reported content length or the
\* number of bytes received differs from the declared size of the asset the
\* download fails with a size-mismatch error and nothing is written to the
\* temporary file
C20_SizeMismatchFails ==
    (BodyAnswered /\ SizeDiffers) =>
        fetch_result = FetchErr("SizeMismatch") /\ temp_file = NoFile

---------------------------------------------------------------------------
\* Names and versions of the installed runners: the version extractors of
\* ProtonManager and DxvkManager, the sort key of the latest-version
\* selection, and the version DxvkManager::install_runner takes from the
\* archive name

MaxPieces == 3

IsDigit(ch) == ch \in DigitChars

\* the end of the longest run of digits that starts at position i
\* (i - 1 when s[i] is no digit): a greedy \d+ or \d*
DigitsEnd(s, i) ==
    IF i > Len(s) THEN i - 1
    ELSE CHOOSE j \in (i - 1)..Len(s) :
            /\ \A k \in i..j : IsDigit(s[k])
            /\ j = Len(s) \/ ~IsDigit(s[j + 1])

\* the end of the longest run of characters other than digits: [^\d]*
NonDigitsEnd(s, i) ==
    IF i > Len(s) THEN i - 1
    ELSE CHOOSE j \in (i - 1)..Len(s) :
            /\ \A k \in i..j : ~IsDigit(s[k])
            /\ j = Len(s) \/ IsDigit(s[j + 1])

At(s, i) == IF i \in 1..Len(s) THEN s[i] ELSE "END"

\* the least position of the set, 0 when it is empty: the leftmost match
Leftmost(positions) ==
    IF positions = {} THEN 0
    ELSE CHOOSE i \in positions : \A j \in positions : i <= j

\* (?:[.-]\d+)* from the position after e, greedy
RECURSIVE MoreNumbers(_, _)
MoreNumbers(s, e) ==
    IF At(s, e + 1) \in {".", "-"} /\ IsDigit(At(s, e + 2))
    THEN MoreNumbers(s, DigitsEnd(s, e + 2))
    ELSE e

PROTON == <<"p", "r", "o", "t", "o", "n">>
GE_PROTON == <<"G", "E", "-", "P", "r", "o", "t", "o", "n">>

\* where (?i)proton[^\d]*(\d+(?:[.-]\d+)*) matches from position i, the
\* first and last position of group 1
ProtonMatchAt(s, i) ==
    LET d == NonDigitsEnd(s, i + 6) + 1
    IN  [ok |-> /\ i + 5 <= Len(s)
                /\ to_lowercase(SubSeq(s, i, i + 5)) = PROTON
                /\ IsDigit(At(s, d)),
         from |-> d,
         to |-> MoreNumbers(s, DigitsEnd(s, d))]

proton_extract_version_from_name_FirstNumber(name) ==
    LET i == Leftmost({k \in 1..Len(name) : ProtonMatchAt(name, k).ok})
    IN  IF i = 0 THEN name
        ELSE SubSeq(name, ProtonMatchAt(name, i).from,
                    DigitsEnd(name, ProtonMatchAt(name, i).from))

\* ProtonManager::extract_version_from_name
proton_extract_version_from_name(name) ==
    LET i == Leftmost({k \in 1..Len(name) : ProtonMatchAt(name, k).ok})
    IN  IF i = 0 THEN name
        ELSE SubSeq(name, ProtonMatchAt(name, i).from,
                    ProtonMatchAt(name, i).to)

\* where \d+\.\d+(?:\.\d+)? matches from position p: its last position
DxvkMatchAt(s, p) ==
    LET a == DigitsEnd(s, p)
        b == DigitsEnd(s, a + 2)
        c == DigitsEnd(s, b + 2)
    IN  [ok |-> a >= p /\ At(s, a + 1) = "." /\ b >= a + 2,
         to |-> IF At(s, b + 1) = "." /\ c >= b + 2 THEN c ELSE b]

\* DxvkManager::extract_version_from_name: v?(\d+\.\d+(?:\.\d+)?); the
\* optional v in front does not change group 1
dxvk_extract_version_from_name(name) ==
    LET p == Leftmost({k \in 1..Len(name) : DxvkMatchAt(name, k).ok})
    IN  IF p = 0 THEN name
        ELSE SubSeq(name, p, DxvkMatchAt(name, p).to)

\* the value of a decimal numeral
RECURSIVE Value(_)
Value(digits) ==
    IF digits = <<>> THEN 0
    ELSE 10 * Value(Front(digits)) + DigitValue(digits[Len(digits)])

\* str::parse::<u32>().unwrap_or(0) for a run of digits
parse_u32_or_0(digits) ==
    IF FitsIn(digits, U32_MAX) THEN Value(StripZeros(digits)) ELSE 0

\* where GE-Proton(\d+)-(\d+) matches from position i
GeProtonMatchAt(s, i) ==
    LET a == DigitsEnd(s, i + 9)
        b == DigitsEnd(s, a + 2)
    IN  [ok |-> /\ i + 8 <= Len(s)
                /\ SubSeq(s, i, i + 8) = GE_PROTON
                /\ a >= i + 9 /\ At(s, a + 1) = "-" /\ b >= a + 2,
         major |-> SubSeq(s, i + 9, a),
         minor |-> SubSeq(s, a + 2, b)]

\* extract_version_number, in hundredths: major + minor / 100.0, or the
\* first number of the string, or 0.0
extract_version_number(version) ==
    LET i == Leftmost({k \in 1..Len(version) :
                          GeProtonMatchAt(version, k).ok})
        d == Leftmost({k \in 1..Len(version) : IsDigit(version[k])})
    IN  IF i # 0
        THEN 100 * parse_u32_or_0(GeProtonMatchAt(version, i).major)
                + parse_u32_or_0(GeProtonMatchAt(version, i).minor)
        ELSE IF d # 0
        THEN 100 * Value(SubSeq(version, d, DigitsEnd(version, d)))
        ELSE 0

\* str::strip_prefix(..).unwrap_or(default)
strip_prefix_or(s, prefix, default) ==
    IF IsPrefixOf(prefix, s) THEN SubSeq(s, Len(prefix) + 1, Len(s))
    ELSE default

\* str::strip_suffix(..).unwrap_or(default)
strip_suffix_or(s, suffix, default) ==
    IF ends_with(s, suffix) THEN SubSeq(s, 1, Len(s) - Len(suffix))
    ELSE default

DXVK_DASH == <<"d", "x", "v", "k", "-">>

\* the version DxvkManager::install_runner takes from the file name: every
\* unwrap_or falls back to the whole file name
dxvk_install_version(filename) ==
    LET s1 == strip_prefix_or(filename, DXVK_DASH, filename)
        s2 == strip_suffix_or(s1, TAR_GZ, filename)
    IN  strip_prefix_or(s2, <<"v">>, filename)

\* extract_dxvk: dxvk_dir.join(format!("v{version}"))
dxvk_install_directory(filename) == <<"v">> \o dxvk_install_version(filename)

\* str::replace(from, ""): every occurrence, left to right
RECURSIVE remove_all(_, _)
remove_all(s, from) ==
    IF s = <<>> THEN <<>>
    ELSE IF IsPrefixOf(from, s)
    THEN remove_all(SubSeq(s, Len(from) + 1, Len(s)), from)
    ELSE <<Head(s)>> \o remove_all(Tail(s), from)

\* ProtonManager::install_runner and extract_proton: proton_dir.join(version)
proton_install_directory(filename) == remove_all(filename, TAR_GZ)

\* pieces the names are put together from
Pieces ==
    { <<"v">>, GE_PROTON, <<"P", "r", "o", "t", "o", "n", SPACE>>,
      DXVK_DASH, TAR_GZ,
      <<"2", ".", "3", ".", "1">>, <<"1", ".", "1", "0">>,
      <<"1", "0", "-", "1", "0">>, <<"9", "-", "1">>, <<"7">>,
      <<"x">>, <<"-">> }

RECURSIVE Concat(_)
Concat(parts) ==
    IF parts = <<>> THEN <<>> ELSE Head(parts) \o Concat(Tail(parts))

ProbeNames == {Concat(ps) : ps \in SeqsUpTo(Pieces, MaxPieces)}

NameInit ==
    /\ probe_in \in ProbeNames
    /\ probe_fn = "none" /\ probe_out = <<>> /\ probe_key = 0
    /\ ArchIdle /\ InstIdle /\ BuildIdle /\ LaunchIdle /\ FetchIdle
    /\ RunIdle

NameFrame ==
    UNCHANGED <<probe_in, archVars, instVars, buildVars, launchVars,
                fetchVars, runVars>>

ProbeProtonVersion ==
    /\ probe_fn = "none"
    /\ probe_fn' = "proton_extract_version_from_name"
    /\ probe_out' = proton_extract_version_from_name(probe_in)
    /\ UNCHANGED probe_key
    /\ NameFrame

ProbeDxvkVersion ==
    /\ probe_fn = "none"
    /\ probe_fn' = "dxvk_extract_version_from_name"
    /\ probe_out' = dxvk_extract_version_from_name(probe_in)
    /\ UNCHANGED probe_key
    /\ NameFrame

ProbeVersionNumber ==
    /\ probe_fn = "none"
    /\ probe_fn' = "extract_version_number"
    /\ probe_key' = extract_version_number(probe_in)
    /\ UNCHANGED probe_out
    /\ NameFrame

ProbeDxvkInstall ==
    /\ probe_fn = "none"
    /\ probe_fn' = "dxvk_install_directory"
    /\ probe_out' = dxvk_install_directory(probe_in)
    /\ UNCHANGED probe_key
    /\ NameFrame

ProbeProtonInstall ==
    /\ probe_fn = "none"
    /\ probe_fn' = "proton_install_directory"
    /\ probe_out' = proton_install_directory(probe_in)
    /\ UNCHANGED probe_key
    /\ NameFrame

NameNext ==
    \/ ProbeProtonVersion \/ ProbeDxvkVersion \/ ProbeVersionNumber
    \/ ProbeDxvkInstall \/ ProbeProtonInstall

SpecNames == NameInit /\ [][NameNext]_vars

---------------------------------------------------------------------------
\* The runner store: discovery of the installed runners, the cache file
\* runners.toml, and the commands that read and change them

MaxInstalls == 2

\* Runner { name, version, path, runner_type }
ProtonRunner(root, dir) ==
    [name |-> dir.name,
     version |-> proton_extract_version_from_name(dir.name),
     path |-> [root |-> root, dir |-> dir.name],
     runner_type |-> "Proton"]

DXVK_NAME == <<"D", "X", "V", "K", "-">>

DxvkRunner(dir) ==
    [name |-> DXVK_NAME \o dir.name,
     version |-> dxvk_extract_version_from_name(dir.name),
     path |-> [root |-> "dxvk", dir |-> dir.name],
     runner_type |-> "Dxvk"]

\* ProtonManager::discover_steam_proton: the directories of
\* steamapps/common whose name holds "proton" and that hold the proton script
discover_steam_proton(d) ==
    LET Looks(x) == ContainsSub(to_lowercase(x.name), PROTON) /\ x.marker
        kept == SelectSeq(d.steam, Looks)
    IN  [i \in 1..Len(kept) |-> ProtonRunner("steam", kept[i])]

\* ProtonManager::discover_cellar_proton
discover_cellar_proton(d) ==
    LET Looks(x) == x.marker
        kept == SelectSeq(d.proton, Looks)
    IN  [i \in 1..Len(kept) |-> ProtonRunner("proton", kept[i])]

\* ProtonManager::discover_local_runners
proton_discover_local_runners(d) ==
    discover_steam_proton(d) \o discover_cellar_proton(d)

\* DxvkManager::discover_local_runners, discover_cellar_dxvk
dxvk_discover_local_runners(d) ==
    LET Looks(x) == x.marker
        kept == SelectSeq(d.dxvk, Looks)
    IN  [i \in 1..Len(kept) |-> DxvkRunner(kept[i])]

discover_local_runners(family, d) ==
    IF family = "proton" THEN proton_discover_local_runners(d)
    ELSE dxvk_discover_local_runners(d)

all_runners_CellarOnly(d) ==
    discover_cellar_proton(d) \o dxvk_discover_local_runners(d)

\* the runners a refresh puts into the cache
all_runners(d) ==
    proton_discover_local_runners(d) \o dxvk_discover_local_runners(d)

OfType(runners, type) ==
    LET Is(r) == r.runner_type = type IN SelectSeq(runners, Is)

\* chrono::Duration::num_hours of half hours: truncated toward zero
num_hours(half_hours) ==
    IF half_hours >= 0 THEN half_hours \div 2 ELSE -((-half_hours) \div 2)

cache_is_recent_UpToAnHour(c, clock) ==
    num_hours(clock - c.last_updated) <= 1

\* cache_age.num_hours() < 1
cache_is_recent(c, clock) == num_hours(clock - c.last_updated) < 1

\* the file exists, can be read and parsed, and is recent
cache_is_served(c, clock) ==
    c.state = "complete" /\ cache_is_recent(c, clock)

AnswerOk(source, runners, value) ==
    [state |-> "ok", err |-> "none", source |-> source,
     runners |-> runners, value |-> value]
AnswerErr(e) ==
    [state |-> "err", err |-> e, source |-> "none", runners |-> <<>>,
     value |-> <<>>]

\* list_runners
list_runners(c, d, clock) ==
    IF cache_is_served(c, clock)
    THEN AnswerOk("cache",
                  OfType(c.runners, "Proton") \o OfType(c.runners, "Dxvk"),
                  <<>>)
    ELSE AnswerOk("scan", all_runners(d), <<>>)

\* sort_by(|a, b| key(b).partial_cmp(key(a))) and [0]: the sort is stable,
\* so the first runner with the greatest key comes first
first_of_sorted(runners) ==
    LET best == CHOOSE i \in 1..Len(runners) :
                    /\ \A j \in 1..Len(runners) :
                        extract_version_number(runners[j].version)
                            <= extract_version_number(runners[i].version)
                    /\ \A j \in 1..(i - 1) :
                        extract_version_number(runners[j].version)
                            < extract_version_number(runners[i].version)
    IN  runners[best]

\* get_latest_proton_version
get_latest_proton_version(c, d, clock) ==
    LET cached == IF cache_is_served(c, clock)
                  THEN OfType(c.runners, "Proton") ELSE <<>>
        source == IF cached = <<>> THEN "scan" ELSE "cache"
        proton_runners == IF cached = <<>>
                          THEN proton_discover_local_runners(d) ELSE cached
    IN  IF proton_runners = <<>> THEN AnswerErr("NoProtonVersions")
        ELSE AnswerOk(source, proton_runners,
                      first_of_sorted(proton_runners).version)

matches_Exactly(r, version) == r.version = version \/ r.name = version

\* |r| r.version == version || r.name.contains(version)
matches(r, version) ==
    r.version = version \/ ContainsSub(r.name, version)

\* runners.iter().find(..): the index of the first match, 0 for None
find_matching(runners, version) ==
    Leftmost({i \in 1..Len(runners) : matches(runners[i], version)})

\* find_proton_installation, and the search of install_dxvk_to_prefix
resolve_installation(family, d, version) ==
    LET runners == discover_local_runners(family, d)
        i == find_matching(runners, version)
    IN  IF i = 0 THEN AnswerErr("NotFound")
        ELSE AnswerOk("scan", <<runners[i]>>, runners[i].path.dir)

DirsOf(d, root) ==
    IF root = "steam" THEN d.steam
    ELSE IF root = "proton" THEN d.proton ELSE d.dxvk

WithDirs(d, root, dirs) ==
    IF root = "steam" THEN [d EXCEPT !.steam = dirs]
    ELSE IF root = "proton" THEN [d EXCEPT !.proton = dirs]
    ELSE [d EXCEPT !.dxvk = dirs]

HasDir(d, path) ==
    \E i \in 1..Len(DirsOf(d, path.root)) :
        DirsOf(d, path.root)[i].name = path.dir

\* delete_runner: fs::remove_dir_all(runner_path) when the path exists and
\* is a directory
delete_runner(d, path) ==
    LET Other(x) == x.name # path.dir
    IN  IF ~HasDir(d, path) THEN [ok |-> FALSE, disk |-> d]
        ELSE [ok |-> TRUE,
              disk |-> WithDirs(d, path.root,
                                SelectSeq(DirsOf(d, path.root), Other))]

\* the name of the archive the release carries for the requested version
ArchiveName(family, version) ==
    IF family = "proton"
    THEN GE_PROTON \o strip_prefix_or(version, GE_PROTON, version) \o TAR_GZ
    ELSE DXVK_DASH \o version \o TAR_GZ

\* extract_proton / extract_dxvk: the version directory is made in the
\* store and filled from the archive
InstallDirectory(family, filename) ==
    IF family = "proton" THEN proton_install_directory(filename)
    ELSE dxvk_install_directory(filename)

Installed(d, family, filename) ==
    LET name == InstallDirectory(family, filename)
        path == [root |-> family, dir |-> name]
    IN  IF HasDir(d, path) THEN d
        ELSE WithDirs(d, family,
                      Append(DirsOf(d, family),
                             [name |-> name, marker |-> TRUE]))

GE_9_1 == GE_PROTON \o <<"9", "-", "1">>
GE_10_1 == GE_PROTON \o <<"1", "0", "-", "1">>
GE_10_10 == GE_PROTON \o <<"1", "0", "-", "1", "0">>
PROTON_8 == <<"P", "r", "o", "t", "o", "n", SPACE, "8", ".", "0">>
V_2_3 == <<"v", "2", ".", "3">>
V_2_3_1 == <<"v", "2", ".", "3", ".", "1">>

\* the sequences of at most n different elements of S
DistinctSeqs(S, n) ==
    {q \in SeqsUpTo(S, n) : \A i, j \in 1..Len(q) : i < j => q[i] # q[j]}

ProtonDirs ==
    {[name |-> GE_9_1, marker |-> TRUE], [name |-> GE_10_1, marker |-> TRUE],
     [name |-> GE_10_10, marker |-> TRUE],
     [name |-> GE_PROTON \o <<"8", "-", "1">>, marker |-> FALSE]}
DxvkDirs ==
    {[name |-> V_2_3, marker |-> TRUE], [name |-> V_2_3_1, marker |-> TRUE]}
SteamDirs == {[name |-> PROTON_8, marker |-> TRUE]}

Disks ==
    [steam : DistinctSeqs(SteamDirs, 1),
     proton : DistinctSeqs(ProtonDirs, MaxInstalls),
     dxvk : DistinctSeqs(DxvkDirs, MaxInstalls)]

\* the clock when the command runs, and the times a cache was written at:
\* an hour and a half, an hour, half an hour before, half an hour after
Now == 4
RefreshTimes == {Now - 3, Now - 2, Now - 1, Now + 1}

\* what a cache written earlier may list: the store as it is, nothing, or
\* a runner that has been removed since
CachedRunners(d) ==
    {all_runners(d), <<>>,
     <<ProtonRunner("proton", [name |-> GE_PROTON \o <<"7", "-", "2">>,
                               marker |-> TRUE])>>}

Caches(d) ==
    {NoCache, [state |-> "unparsable", runners |-> <<>>, last_updated |-> 0]}
    \cup [state : {"complete"}, runners : CachedRunners(d),
          last_updated : RefreshTimes]

ReadRequests ==
    {[op |-> "list", family |-> "none", version |-> <<>>],
     [op |-> "latest", family |-> "proton", version |-> <<>>]}

ProtonVersions ==
    {<<"1", "0", "-", "1">>, <<"1", "0", "-", "1", "0">>, GE_10_10,
     <<"8", ".", "0">>, <<"7", "-", "2">>}
DxvkVersions == {<<"2", ".", "3">>, <<"2", ".", "3", ".", "1">>}

StoreRequests ==
    [op : {"resolve", "install", "remove"}, family : {"proton"},
     version : ProtonVersions]
    \cup [op : {"resolve", "install", "remove"}, family : {"dxvk"},
          version : DxvkVersions]
    \cup {[op |-> "refresh", family |-> "none", version |-> <<>>]}

RunInit ==
    /\ disk \in Disks
    /\ now = Now
    /\ \/ request \in ReadRequests /\ cache \in Caches(disk)
       \/ /\ request \in StoreRequests
          /\ cache \in {NoCache,
                        [state |-> "complete", runners |-> <<>>,
                         last_updated |-> Now - 1]}
    /\ run_pc = "start"
    /\ answer = NoAnswer
    /\ before = [disk |-> disk, cache |-> cache]
    /\ refreshers = <<>> /\ seen = NoCache
    /\ NameIdle
    /\ ArchIdle /\ InstIdle /\ BuildIdle /\ LaunchIdle /\ FetchIdle

RunFrame ==
    UNCHANGED <<now, request, before, refreshers, seen, nameVars, archVars,
                instVars, buildVars, launchVars, fetchVars>>

\* runners list
RunList ==
    /\ run_pc = "start" /\ request.op = "list"
    /\ answer' = list_runners(cache, disk, now)
    /\ run_pc' = "done"
    /\ UNCHANGED <<disk, cache>>
    /\ RunFrame

\* the latest-version selection of add_game
RunLatest ==
    /\ run_pc = "start" /\ request.op = "latest"
    /\ answer' = get_latest_proton_version(cache, disk, now)
    /\ run_pc' = "done"
    /\ UNCHANGED <<disk, cache>>
    /\ RunFrame

\* the search for the installed runner of a version
RunResolve ==
    /\ run_pc = "start" /\ request.op = "resolve"
    /\ answer' = resolve_installation(request.family, disk, request.version)
    /\ run_pc' = "done"
    /\ UNCHANGED <<disk, cache>>
    /\ RunFrame

\* install_runner up to the refresh: the download or the unpacking may fail
RunInstall ==
    /\ run_pc = "start" /\ request.op = "install"
    /\ \E installed \in BOOLEAN :
        IF installed
        THEN /\ disk' = Installed(disk, request.family,
                                  ArchiveName(request.family,
                                              request.version))
             /\ answer' = AnswerOk("none", <<>>,
                                   InstallDirectory(
                                       request.family,
                                       ArchiveName(request.family,
                                                   request.version)))
             /\ run_pc' = "refresh"
        ELSE /\ answer' = AnswerErr("InstallFailed")
             /\ run_pc' = "done"
             /\ UNCHANGED disk
    /\ UNCHANGED cache
    /\ RunFrame

\* remove_runner up to the refresh
RunRemove ==
    /\ run_pc = "start" /\ request.op = "remove"
    /\ LET found == resolve_installation(request.family, disk,
                                         request.version)
           deleted == delete_runner(disk, found.runners[1].path)
       IN  IF found.state = "err"
           THEN /\ answer' = found
                /\ run_pc' = "done"
                /\ UNCHANGED disk
           ELSE IF ~deleted.ok
           THEN /\ answer' = AnswerErr("NotADirectory")
                /\ run_pc' = "done"
                /\ UNCHANGED disk
           ELSE /\ disk' = deleted.disk
                /\ answer' = found
                /\ run_pc' = "refresh"
    /\ UNCHANGED cache
    /\ RunFrame

\* refresh_runners: the cache file is removed
RunRefreshRemove ==
    /\ \/ run_pc = "refresh"
       \/ run_pc = "start" /\ request.op = "refresh"
    /\ cache' = NoCache
    /\ run_pc' = "scan"
    /\ UNCHANGED <<disk, answer>>
    /\ RunFrame

\* refresh_runners: the store is scanned and the cache is written, unless
\* reading a directory or writing the file fails
RunRefreshWrite ==
    /\ run_pc = "scan"
    /\ \E saved \in BOOLEAN :
        IF saved
        THEN /\ cache' = [state |-> "complete",
                          runners |-> all_runners(disk),
                          last_updated |-> now]
             /\ answer' = [answer EXCEPT !.state = "ok"]
        ELSE /\ answer' = AnswerErr("RefreshFailed")
             /\ UNCHANGED cache
    /\ run_pc' = "done"
    /\ UNCHANGED disk
    /\ RunFrame

RunNext ==
    \/ RunList \/ RunLatest \/ RunResolve \/ RunInstall \/ RunRemove
    \/ RunRefreshRemove \/ RunRefreshWrite

SpecRunners == RunInit /\ [][RunNext]_vars

---------------------------------------------------------------------------
\* The cache file under refreshes that run at once (two invocations of the
\* program) and a reader: every file system call is a step of its own

MaxRefreshers == 2

Refreshers == 1..MaxRefreshers

\* where a refresh is, the record it built, and whether the file it holds
\* open has been unlinked from the path since
Fresh == [pc |-> "exists", runners |-> <<>>, last_updated |-> 0,
          unlinked |-> FALSE]

\* fs::write: write_all through a handle opened with truncate. The bytes go
\* to the start of the file; a longer record written meanwhile by another
\* handle keeps its tail, and the file no longer parses
write_all(file, record) ==
    IF file.state = "complete" /\ Len(file.runners) > Len(record.runners)
    THEN [state |-> "unparsable", runners |-> <<>>, last_updated |-> 0]
    ELSE [state |-> "complete", runners |-> record.runners,
          last_updated |-> record.last_updated]

\* File::create: the file is there and empty
truncated == [state |-> "unparsable", runners |-> <<>>, last_updated |-> 0]

CacheDisks ==
    {[steam |-> <<>>, proton |-> q, dxvk |-> <<>>] :
        q \in {<<[name |-> GE_9_1, marker |-> TRUE]>>,
               <<[name |-> GE_9_1, marker |-> TRUE],
                 [name |-> GE_10_10, marker |-> TRUE]>>}}

CacheInit ==
    /\ disk \in CacheDisks
    /\ now = Now
    /\ cache \in {NoCache,
                  [state |-> "complete", runners |-> all_runners(disk),
                   last_updated |-> Now - 3]}
    /\ request = [op |-> "refresh", family |-> "none", version |-> <<>>]
    /\ run_pc = "concurrent"
    /\ answer = NoAnswer
    /\ before = [disk |-> disk, cache |-> cache]
    /\ refreshers = [p \in Refreshers |-> Fresh]
    /\ seen = cache
    /\ NameIdle
    /\ ArchIdle /\ InstIdle /\ BuildIdle /\ LaunchIdle /\ FetchIdle

CacheFrame ==
    UNCHANGED <<request, run_pc, answer, before, nameVars, archVars,
                instVars, buildVars, launchVars, fetchVars>>

\* if cache_path.exists()
RefreshExists(p) ==
    /\ run_pc = "concurrent" /\ refreshers[p].pc = "exists"
    /\ refreshers' =
        [refreshers EXCEPT ![p].pc =
            IF cache.state = "missing" THEN "scan" ELSE "remove"]
    /\ UNCHANGED <<disk, cache, now, seen>>
    /\ CacheFrame

\* fs::remove_file(&cache_path)?: an error when the file is gone by now
RefreshRemoveFile(p) ==
    /\ run_pc = "concurrent" /\ refreshers[p].pc = "remove"
    /\ IF cache.state = "missing"
       THEN /\ refreshers' = [refreshers EXCEPT ![p].pc = "failed"]
            /\ UNCHANGED cache
       ELSE /\ cache' = NoCache
            /\ refreshers' =
                [q \in Refreshers |->
                    IF q = p THEN [refreshers[q] EXCEPT !.pc = "scan"]
                    ELSE IF refreshers[q].pc = "write"
                    THEN [refreshers[q] EXCEPT !.unlinked = TRUE]
                    ELSE refreshers[q]]
    /\ UNCHANGED <<disk, now, seen>>
    /\ CacheFrame

\* the discovery of both managers and RunnerCache { runners, last_updated:
\* Utc::now() }
RefreshScan(p) ==
    /\ run_pc = "concurrent" /\ refreshers[p].pc = "scan"
    /\ refreshers' =
        [refreshers EXCEPT ![p] =
            [pc |-> "create", runners |-> all_runners(disk),
             last_updated |-> now, unlinked |-> FALSE]]
    /\ now' = now + 1
    /\ UNCHANGED <<disk, cache, seen>>
    /\ CacheFrame

\* fs::write, first half: the file is created or truncated
RefreshCreate(p) ==
    /\ run_pc = "concurrent" /\ refreshers[p].pc = "create"
    /\ cache' = truncated
    /\ refreshers' = [refreshers EXCEPT ![p].pc = "write"]
    /\ UNCHANGED <<disk, now, seen>>
    /\ CacheFrame

\* fs::write, second half: the record is written through the handle
RefreshWriteAll(p) ==
    /\ run_pc = "concurrent" /\ refreshers[p].pc = "write"
    /\ cache' = IF refreshers[p].unlinked THEN cache
                ELSE write_all(cache, refreshers[p])
    /\ refreshers' = [refreshers EXCEPT ![p].pc = "done"]
    /\ UNCHANGED <<disk, now, seen>>
    /\ CacheFrame

\* a reader (runners list, the latest-version selection) looks at the file
CacheRead ==
    /\ run_pc = "concurrent"
    /\ seen' = cache
    /\ UNCHANGED <<disk, cache, now, refreshers>>
    /\ CacheFrame

\* another command removes the last runner of the store meanwhile
StoreShrinks ==
    /\ run_pc = "concurrent"
    /\ disk = before.disk /\ Len(disk.proton) > 1
    /\ disk' = [disk EXCEPT !.proton = Front(disk.proton)]
    /\ UNCHANGED <<cache, now, refreshers, seen>>
    /\ CacheFrame

CacheNext ==
    \/ \E p \in Refreshers :
        \/ RefreshExists(p) \/ RefreshRemoveFile(p) \/ RefreshScan(p)
        \/ RefreshCreate(p) \/ RefreshWriteAll(p)
    \/ CacheRead
    \/ StoreShrinks

SpecCache == CacheInit /\ [][CacheNext]_vars

---------------------------------------------------------------------------
\* The command line execute_shell_command hands to sh -c

MaxArgs == 2

\* arguments with the characters the quoting looks for
QuoteArgs ==
    {<<"V", "=", "1">>, <<"a">>, <<"a", SPACE, "b">>,
     <<"a", QUOTE, "b">>, <<"i", "t", "'", "s">>,
     <<"a", BACKSLASH, "b">>, <<"a", BACKSLASH, BACKSLASH, "b">>,
     <<"a", BACKSLASH>>, <<BACKSLASH, QUOTE>>}

QuoteInit ==
    /\ probe_in \in SeqsUpTo(QuoteArgs, MaxArgs)
    /\ probe_fn = "none" /\ probe_out = <<>> /\ probe_key = 0
    /\ ArchIdle /\ InstIdle /\ BuildIdle /\ LaunchIdle /\ FetchIdle
    /\ RunIdle

\* let command_line = self.shell_quote_command(args)
ShellCommandLine ==
    /\ probe_fn = "none"
    /\ probe_fn' = "shell_quote_command"
    /\ probe_out' = shell_quote_command(probe_in)
    /\ UNCHANGED probe_key
    /\ NameFrame

QuoteNext == ShellCommandLine

SpecQuote == QuoteInit /\ [][QuoteNext]_vars

---------------------------------------------------------------------------
\* Properties of the names and versions

\* n numbers joined by the separator: X.Y.Z, M-N
Numbers(t, sep, n) ==
    LET parts == SplitOn(t, sep, <<>>)
    IN  /\ Len(parts) = n
        /\ \A i \in 1..n : parts[i] # <<>> /\ AllDigits(parts[i])

\* no number.number anywhere in the name
NoDxvkPattern(name) ==
    ~\E i \in 1..Len(name) :
        IsDigit(name[i]) /\ At(name, i + 1) = "." /\ IsDigit(At(name, i + 2))

\* no "proton", in any case, with a digit somewhere after it
NoProtonPattern(name) ==
    ~\E i \in 1..Len(name), k \in 1..Len(name) :
        /\ i + 5 < k
        /\ to_lowercase(SubSeq(name, i, i + 5)) = PROTON
        /\ IsDigit(name[k])

\* C21: the version extractor of DXVK returns X.Y.Z for the directory name
\* vX.Y.Z, the one of Proton returns M-N for GE-ProtonM-N, and each returns
\* a name that matches none of its patterns unchanged
C21_VersionRoundTrip ==
    /\ probe_fn = "dxvk_extract_version_from_name" =>
        /\ (IsPrefixOf(<<"v">>, probe_in)
                /\ Numbers(Tail(probe_in), ".", 3)) =>
            probe_out = Tail(probe_in)
        /\ NoDxvkPattern(probe_in) => probe_out = probe_in
    /\ probe_fn = "proton_extract_version_from_name" =>
        /\ (IsPrefixOf(GE_PROTON, probe_in)
                /\ Numbers(SubSeq(probe_in, 10, Len(probe_in)), "-", 2)) =>
            probe_out = SubSeq(probe_in, 10, Len(probe_in))
        /\ NoProtonPattern(probe_in) => probe_out = probe_in

C21_Witness ==
    /\ probe_fn = "proton_extract_version_from_name"
    /\ probe_in = GE_PROTON \o <<"1", "0", "-", "1", "0", "7">>
    /\ probe_out = <<"1", "0", "-", "1", "0", "7">>

\* C27: for the archive dxvk-X.Y.Z.tar.gz DxvkManager::install_runner
\* installs into the directory vX.Y.Z of the dxvk store
C27_DxvkInstallDirectory ==
    (/\ probe_fn = "dxvk_install_directory"
     /\ IsPrefixOf(DXVK_DASH, probe_in) /\ ends_with(probe_in, TAR_GZ)
     /\ Len(probe_in) > 12
     /\ Numbers(SubSeq(probe_in, 6, Len(probe_in) - 7), ".", 3)) =>
        probe_out = <<"v">> \o SubSeq(probe_in, 6, Len(probe_in) - 7)

---------------------------------------------------------------------------
\* Properties of the runner store

\* the first two numbers of a version
MajorMinor(version) ==
    LET e == DigitsEnd(version, 1)
    IN  <<Value(SubSeq(version, 1, e)),
          Value(SubSeq(version, e + 2, DigitsEnd(version, e + 2)))>>

PairLeq(a, b) == a[1] < b[1] \/ (a[1] = b[1] /\ a[2] <= b[2])

\* C22: the latest-version selection returns the version that is greatest
\* by (major, minor) among the runners it chose from, whatever the order
\* they were discovered in
C22_LatestIsGreatest ==
    (request.op = "latest" /\ run_pc = "done" /\ answer.state = "ok") =>
        \A i \in 1..Len(answer.runners) :
            PairLeq(MajorMinor(answer.runners[i].version),
                    MajorMinor(answer.value))

\* C29: the installed runtime resolved for a version is one whose version
\* or directory name is exactly that version
C29_ResolvesExactVersion ==
    (request.op = "resolve" /\ run_pc = "done" /\ answer.state = "ok") =>
        \/ answer.runners[1].version = request.version
        \/ answer.runners[1].path.dir = request.version

\* C30: runners remove leaves the Proton installations of the Steam library
\* alone, and deletes nothing when it returns an error before the refresh
C30_RemoveStaysInStore ==
    request.op = "remove" =>
        /\ disk.steam = before.disk.steam
        /\ answer.err \in {"NotFound", "NotADirectory"} =>
            disk = before.disk

\* what a scan of the directories finds
LiveScan(d) ==
    proton_discover_local_runners(d) \o dxvk_discover_local_runners(d)

\* the cache the command found is a parsable file written less than an
\* hour (two half hours) ago
YoungCache ==
    before.cache.state = "complete" /\ now - before.cache.last_updated < 2

\* C23: runners list and the latest-version selection answer from the cache
\* only when it is younger than one hour; a cache one hour old or older, a
\* missing one and an unparsable one lead to a scan of the directories
C23_StaleCacheRescanned ==
    (request.op \in {"list", "latest"} /\ run_pc = "done") =>
        /\ answer.source = "cache" => YoungCache
        /\ ~YoungCache =>
            IF request.op = "list"
            THEN answer.source = "scan" /\ answer.runners = LiveScan(disk)
            ELSE \/ /\ answer.source = "scan"
                    /\ answer.runners = proton_discover_local_runners(disk)
                 \/ /\ answer.err = "NoProtonVersions"
                    /\ proton_discover_local_runners(disk) = <<>>
        /\ (YoungCache /\ request.op = "list") =>
            /\ answer.source = "cache"
            /\ answer.runners = before.cache.runners

\* a cache exactly one hour old that lists a removed runner: the list comes
\* from the directories
C23_Witness ==
    /\ request.op = "list" /\ run_pc = "done"
    /\ before.cache.state = "complete" /\ before.cache.last_updated = now - 2
    /\ before.cache.runners # <<>>
    /\ before.cache.runners # LiveScan(disk)
    /\ answer.source = "scan"
    /\ Len(answer.runners) = 2

C24_ReaderSeesCompleteRecord ==
    (run_pc = "concurrent" /\ before.cache.state = "complete") =>
        /\ seen.state = "complete"
        /\ (\A p \in Refreshers : refreshers[p].pc = "done") =>
            \E p \in Refreshers :
                cache = [state |-> "complete",
                         runners |-> refreshers[p].runners,
                         last_updated |-> refreshers[p].last_updated]

---------------------------------------------------------------------------
\* Properties of the path validation under symlinks

\* some prefix of the joined path resolves to a place that is not under the
\* canonical destination
LeavesDestination(f, final_path) ==
    \E k \in 1..Len(final_path) :
        LET c == canonicalize(f, SubSeq(final_path, 1, k))
        IN  c.ok /\ ~starts_with(c.path, canonicalize(f, Destination).path)

\* C25: an entry whose target, resolved through the symlinks of the
\* destination, lies outside the canonical destination is rejected, and
\* nothing has been created on disk for it
C25_EscapeRejectedBeforeCreation ==
    (/\ last.validated
     /\ last.err \notin PathRejections
     /\ PlainRelativePath(last.entry.path)
     /\ LeavesDestination(fs_pre,
                          Destination \o PathPieces(last.entry.path))) =>
        /\ last.err # "none"
        /\ fs = fs_pre

---------------------------------------------------------------------------
\* Properties of the shell quoting

\* the words sh makes of a command line: blanks separate words, a backslash
\* takes the next character literally, single quotes take everything
\* literally, and inside double quotes a backslash escapes only ", \, $ and
\* the backquote. ok is FALSE for a line sh cannot read as plain words (an
\* open quote, an expansion)
RECURSIVE ShWords(_, _, _, _, _, _)
ShWords(line, i, mode, cur, started, words) ==
    IF i > Len(line)
    THEN IF mode # "plain" THEN [ok |-> FALSE, words |-> <<>>]
         ELSE [ok |-> TRUE,
               words |-> IF started THEN Append(words, cur) ELSE words]
    ELSE IF mode = "single"
    THEN IF line[i] = "'"
         THEN ShWords(line, i + 1, "plain", cur, TRUE, words)
         ELSE ShWords(line, i + 1, mode, Append(cur, line[i]), TRUE, words)
    ELSE IF mode = "double"
    THEN IF line[i] = QUOTE
         THEN ShWords(line, i + 1, "plain", cur, TRUE, words)
         ELSE IF line[i] \in {"$", BACKTICK}
         THEN [ok |-> FALSE, words |-> <<>>]
         ELSE IF line[i] = BACKSLASH /\ i < Len(line)
                 /\ line[i + 1] \in {QUOTE, BACKSLASH, "$", BACKTICK}
         THEN ShWords(line, i + 2, mode, Append(cur, line[i + 1]), TRUE,
                      words)
         ELSE ShWords(line, i + 1, mode, Append(cur, line[i]), TRUE, words)
    ELSE IF line[i] = SPACE
    THEN ShWords(line, i + 1, mode, <<>>, FALSE,
                 IF started THEN Append(words, cur) ELSE words)
    ELSE IF line[i] = QUOTE
    THEN ShWords(line, i + 1, "double", cur, TRUE, words)
    ELSE IF line[i] = "'"
    THEN ShWords(line, i + 1, "single", cur, TRUE, words)
    ELSE IF line[i] = BACKSLASH /\ i < Len(line)
    THEN ShWords(line, i + 2, mode, Append(cur, line[i + 1]), TRUE, words)
    ELSE IF line[i] \in {"$", BACKTICK, ";", "&", "|", "<", ">", "(", ")",
                         "*", "?"}
    THEN [ok |-> FALSE, words |-> <<>>]
    ELSE ShWords(line, i + 1, mode, Append(cur, line[i]), TRUE, words)

sh_words(line) == ShWords(line, 1, "plain", <<>>, FALSE, <<>>)

\* C28: the words sh makes of the command line shell_quote_command builds
\* are the arguments it was given, also for arguments with spaces, double
\* quotes, single quotes and backslashes
C28_QuotingPreservesArguments ==
    probe_fn = "shell_quote_command" =>
        sh_words(probe_out) = [ok |-> TRUE, words |-> probe_in]

====
